---- MODULE Spec2Model ----
(***************************************************************************)
(* A model of the audio-reactive frame pipeline of madmonk13/visualizer:   *)
(* AudioProcessor (audio_processor.py), BeatDetector (beat_detector.py),   *)
(* MusicVisualizer.render_frame / render (visualizer.py) and the GUI's     *)
(* RenderManager (gui_renderer.py).                                        *)
(*                                                                         *)
(* Floating point numbers are modelled as exact rationals <<n, d>> in      *)
(* lowest terms with d > 0, extended with NaN = <<0, 0>> and the           *)
(* infinities <<1, 0>> and <<-1, 0>>; rounding error is not modelled.      *)
(***************************************************************************)
EXTENDS Integers, Sequences, FiniteSets, TLC

(***************************************************************************)
(* Bounds of the model.                                                    *)
(***************************************************************************)
\* magnitudes of the spectrogram range over 0..MaxMag
MaxMag == 1
\* number of detect_beat / query calls explored in the unit specifications
MaxCalls == 3
\* largest point count asked of get_band_waveform
MaxPoints == 3
\* number of draw_text_overlay calls explored on one history
MaxTextCalls == 62
\* frame rates of the rendered videos range over 1..MaxFps
MaxFps == 2
\* number of full renders started in the GUI
MaxRenders == 1
\* the highest spectrogram magnitude of the volume_intensity specification
MaxLevel == 2
\* number of full renders started one after the other in SpecRestart
MaxRestarts == 2

(***************************************************************************)
(* Numbers: Python / numpy floats as extended rationals.                   *)
(***************************************************************************)
NaN == <<0, 0>>

Abs(n) == IF n < 0 THEN 0 - n ELSE n

Sgn(n) == IF n < 0 THEN 0 - 1 ELSE IF n > 0 THEN 1 ELSE 0

RECURSIVE GCD(_, _)
GCD(a, b) == IF b = 0 THEN a ELSE GCD(b, a % b)

\* the number n/d in lowest terms; n/0 is NaN or an infinity
Norm(n, d) ==
    IF d = 0 THEN <<Sgn(n), 0>>
    ELSE LET g == GCD(Abs(n), Abs(d))
             s == Sgn(d)
         IN  <<(s * n) \div g, (s * d) \div g>>

\* the integer n as a number
I(n) == <<n, 1>>

IsNaN(a) == a = NaN

IsFinite(a) == a[2] > 0

RAdd(a, b) ==
    IF a[2] = 1 /\ b[2] = 1 THEN <<a[1] + b[1], 1>>
    ELSE IF IsNaN(a) \/ IsNaN(b) THEN NaN
    ELSE IF a[2] = 0 /\ b[2] = 0 THEN (IF a[1] = b[1] THEN a ELSE NaN)
    ELSE Norm(a[1] * b[2] + b[1] * a[2], a[2] * b[2])

RNeg(a) == <<0 - a[1], a[2]>>

RSub(a, b) == RAdd(a, RNeg(b))

RMul(a, b) ==
    IF a[2] = 1 /\ b[2] = 1 THEN <<a[1] * b[1], 1>>
    ELSE IF IsNaN(a) \/ IsNaN(b) THEN NaN
    ELSE Norm(a[1] * b[1], a[2] * b[2])

\* numpy division: x/0 is an infinity or NaN, never an exception
RDiv(a, b) ==
    IF IsNaN(a) \/ IsNaN(b) THEN NaN
    ELSE Norm(a[1] * b[2], a[2] * b[1])

\* a < b; every comparison with NaN is false
RLess(a, b) ==
    /\ ~IsNaN(a)
    /\ ~IsNaN(b)
    /\ IF a[2] = 0 /\ b[2] = 0 THEN a[1] < b[1]
       ELSE a[1] * b[2] < b[1] * a[2]

RLeq(a, b) == ~IsNaN(a) /\ ~IsNaN(b) /\ (a = b \/ RLess(a, b))

\* Python's min(a, b): b when b < a, else a
RMin(a, b) == IF RLess(b, a) THEN b ELSE a

\* int(a) of a finite a: truncation toward zero
Trunc(a) ==
    IF a[1] >= 0 THEN a[1] \div a[2] ELSE 0 - ((0 - a[1]) \div a[2])

\* Python's a % m for a positive integer m
RMod(a, m) ==
    IF ~IsFinite(a) THEN NaN
    ELSE RSub(a, I(m * (a[1] \div (a[2] * m))))

RECURSIVE RSumRange(_, _, _)
\* the sum of s[lo..hi], by halves as np.sum adds pairwise
RSumRange(s, lo, hi) ==
    IF lo > hi THEN I(0)
    ELSE IF lo = hi THEN s[lo]
    ELSE LET mid == (lo + hi) \div 2
         IN  RAdd(RSumRange(s, lo, mid), RSumRange(s, mid + 1, hi))

\* np.sum of a sequence
RSum(s) == RSumRange(s, 1, Len(s))

RECURSIVE RMax(_)
\* np.max of a non-empty sequence: NaN when any element is NaN
RMax(s) ==
    IF Len(s) = 1 THEN s[1]
    ELSE LET m == RMax(Tail(s))
         IN  IF IsNaN(s[1]) \/ IsNaN(m) THEN NaN
             ELSE IF RLess(m, s[1]) THEN s[1] ELSE m

\* np.mean of a non-empty sequence
RMean(s) == RDiv(RSum(s), I(Len(s)))

\* the elements of s at the positions of the sequence of indices idx
Pick(s, idx) == [k \in 1..Len(idx) |-> s[idx[k]]]

RECURSIVE Positions(_, _, _)
\* the indices i >= from of s with P[i], ascending (a boolean mask applied)
Positions(mask, from, n) ==
    IF from > n THEN <<>>
    ELSE (IF mask[from] THEN <<from>> ELSE <<>>) \o Positions(mask, from + 1, n)


(***************************************************************************)
(* State.                                                                  *)
(***************************************************************************)
VARIABLES
    \* AudioProcessor: the normalised waveform and the magnitude spectrogram,
    \* magnitude[bin][frame + 1]
    y, magnitude,
    \* the last query made of the AudioProcessor in SpecAudio, with its result
    q,
    \* BeatDetector
    prev_energy, beat_intensity,
    \* the value returned by the last detect_beat call
    beat_returned,
    \* history of the detect_beat calls: their number, the intensity before the
    \* last call, whether the last call saw the same total energy as the call
    \* before it, the length of the current run of such calls and the intensity
    \* before that run
    calls, beat_before, same_energy, decay_run, decay_base,
    \* MusicVisualizer: its configuration (the constructor's arguments) and
    \* its animation state; stars is the starfield of its EffectsRenderer
    \* self_bands is self.bands
    cfg, self_bands, rotation, cover_rotation, hue_offset, trail_buffer,
    text_fade_history, stars,
    \* the volume_intensity samples passed to draw_text_overlay so far
    volume_samples,
    \* the record of the last render_frame call: the number of calls so far,
    \* the state it started from, the fade_amount of the call before it if
    \* that frame was faded (-1 if not), the pixels the waveform layer of this
    \* or of an earlier call painted, its result and the outcomes it can have
    frame,
    \* render(): the place reached, the loop's frame index, the frame count,
    \* the video writer, the temporary and the final file, the indices of
    \* the frames written
    pc, cur_frame, total_frames, out, temp_video, output_file, written,
    \* RenderManager: its flags, the state of the two buttons, whether the
    \* confirmation dialog of cancel_render is open, the callbacks passed to
    \* root.after and not yet run, the number of renders started, the way the
    \* worker of the last render ended and the handlers run so far
    is_rendering, cancel_render_flag, render_btn, preview_btn, cancel_dialog,
    after_queue, renders, exit, handlers,
    \* RenderManager.preview_thread: "none" before the first preview, then
    \* "alive" or "dead"; the number of preview threads alive; history kept
    \* in SpecPreview: what the last generate_preview call did
    preview_thread, previews_alive, preview_log,
    \* what the last start_render call returned ("none" before the first)
    start_result,
    \* history kept in SpecRestart: whether cancel_render_flag was still set
    \* when the last render was started, and whether a cancel request has
    \* been confirmed since
    cancel_log

audio_vars == <<y, magnitude>>

visualizer_vars == <<rotation, cover_rotation, hue_offset, trail_buffer,
                     text_fade_history, stars, volume_samples, frame>>

render_vars == <<pc, cur_frame, total_frames, out, temp_video, output_file,
                 written>>

beat_vars == <<prev_energy, beat_intensity, beat_returned, calls, beat_before,
               same_energy, decay_run, decay_base>>

config_vars == <<cfg, self_bands>>

preview_vars == <<preview_thread, previews_alive, preview_log>>

gui_vars == <<is_rendering, cancel_render_flag, render_btn, preview_btn,
              cancel_dialog, after_queue, renders, exit, handlers,
              preview_vars, start_result, cancel_log>>

vars == <<audio_vars, q, beat_vars, config_vars, visualizer_vars, render_vars,
          gui_vars>>

(***************************************************************************)
(* config.py                                                               *)
(***************************************************************************)
FREQUENCY_BANDS == <<
    [name |-> "Sub-Bass",  min |-> 20,  max |-> 40,   hue_offset |-> 0],
    [name |-> "Bass",      min |-> 40,  max |-> 80,   hue_offset |-> 45],
    [name |-> "Low-Bass",  min |-> 80,  max |-> 100,  hue_offset |-> 90],
    [name |-> "Low-Mid",   min |-> 100, max |-> 200,  hue_offset |-> 135],
    [name |-> "Mid",       min |-> 200, max |-> 400,  hue_offset |-> 180],
    [name |-> "Upper-Mid", min |-> 400, max |-> 600,  hue_offset |-> 225],
    [name |-> "High-Mid",  min |-> 600, max |-> 800,  hue_offset |-> 270],
    [name |-> "Presence",  min |-> 800, max |-> 1000, hue_offset |-> 315] >>

(***************************************************************************)
(* AudioProcessor (audio_processor.py)                                     *)
(***************************************************************************)
\* The results of a call: a value, or the exception it raised.
Ok(v) == [raised |-> "", value |-> v]

Raise(e) == [raised |-> e, value |-> <<>>]

\* The decoded samples _load_audio may read in the unit specifications: a
\* silent file and one that is not.
UnitAudio == { <<0>>, <<0 - 2>> }

RECURSIVE MaxAbs(_)
\* np.max(np.abs(audio_data))
MaxAbs(a) ==
    IF Len(a) = 1 THEN Abs(a[1])
    ELSE LET m == MaxAbs(Tail(a)) IN IF Abs(a[1]) > m THEN Abs(a[1]) ELSE m

\* _load_audio: y = audio_data / max|audio_data|; a silent file gives 0/0
LoadAudio(audio_data) ==
    [i \in 1..Len(audio_data) |-> RDiv(I(audio_data[i]), I(MaxAbs(audio_data)))]

\* self.frequencies: the bin frequencies k * sr / nperseg (here sr / nperseg
\* = 250 Hz): bin 1 lies in no band, bin 2 in the Mid band and in both beat
\* ranges, bin 3 in the Upper-Mid band and the low-mid beat range.
frequencies == <<0, 250, 500>>

NumBins == Len(frequencies)

Bins == 1..NumBins

\* self.magnitude.shape[1]
NFrames == Len(magnitude[1])

\* The number of time frames stft returns for a waveform: with a hop of one
\* sample (sr = fps) and the zero padding at both ends, one more than samples.
StftFrames(wave) == Len(wave) + 1

\* _calculate_stft: the spectrograms scipy's stft may return for a waveform,
\* magnitude = |stft| >= 0; NaN samples give NaN in every window
Stft(wave) ==
    IF \E i \in 1..Len(wave) : IsNaN(wave[i])
    THEN { [b \in Bins |-> [f \in 1..StftFrames(wave) |-> NaN]] }
    ELSE [Bins -> [1..StftFrames(wave) -> {I(m) : m \in 0..MaxMag}]]

\* the frame indices passed in the unit specifications: the valid ones and
\* two past the end
FrameIdxs == 0..(NFrames + 1)

\* mutant of ClampFrame: the index one past the end is not clamped
ClampFrame_OffByOne(frame_idx) ==
    IF frame_idx > NFrames THEN NFrames - 1 ELSE frame_idx

\* if frame_idx >= self.magnitude.shape[1]: frame_idx = shape[1] - 1
ClampFrame(frame_idx) ==
    IF frame_idx >= NFrames THEN NFrames - 1 ELSE frame_idx

\* whether magnitude[:, f] is an index error
BadFrame(f) == f < 0 \/ f >= NFrames

\* self.magnitude[:, f]
FrameData(f) == [b \in Bins |-> magnitude[b][f + 1]]

\* the bins selected by (frequencies >= lo) & (frequencies <= hi)
MaskBins(lo, hi) ==
    Positions([b \in Bins |-> frequencies[b] >= lo /\ frequencies[b] <= hi],
              1, NumBins)

\* frame_data[mask]
Masked(frame_data, bins) == Pick(frame_data, bins)

\* the bins of each band of FREQUENCY_BANDS
BandBins ==
    [k \in 1..Len(FREQUENCY_BANDS) |->
        MaskBins(FREQUENCY_BANDS[k].min, FREQUENCY_BANDS[k].max)]

\* bass_mask and low_mid_mask of detect_beat
bass_mask == MaskBins(20, 250)

low_mid_mask == MaskBins(250, 1000)

\* self.magnitude as one sequence
AllMagnitudes ==
    [k \in 1..(NumBins * NFrames) |->
        magnitude[((k - 1) \div NFrames) + 1][((k - 1) % NFrames) + 1]]

\* np.max(self.magnitude)
GlobalMax == RMax(AllMagnitudes)

\* np.max(magnitude) if np.max(magnitude) > 0 else 1
MaxOrOne == IF RLess(I(0), GlobalMax) THEN GlobalMax ELSE I(1)

get_band_values(frame_idx, bands) ==
    LET f == ClampFrame(frame_idx)
    IN  IF BadFrame(f) THEN Raise("IndexError")
        ELSE Ok([k \in 1..Len(bands) |->
                   LET band_data ==
                           Masked(FrameData(f), MaskBins(bands[k].min, bands[k].max))
                   IN  IF Len(band_data) > 0 THEN RMean(band_data) ELSE I(0)])

\* np.linspace(0, n - 1, points).astype(int), as 0-based positions
LinspaceInt(n, points) ==
    [k \in 1..points |->
        IF points = 1 THEN 0 ELSE ((k - 1) * (n - 1)) \div (points - 1)]

\* mutant of get_band_waveform: an empty slice is resampled like any other
get_band_waveform_NoEmptyCheck(frame_idx, band_idx, bands, points) ==
    LET f == ClampFrame(frame_idx)
    IN  IF band_idx < 0 \/ band_idx >= Len(bands) \/ BadFrame(f)
        THEN Raise("IndexError")
        ELSE LET band      == bands[band_idx + 1]
                 band_data == Masked(FrameData(f), MaskBins(band.min, band.max))
                 indices   == LinspaceInt(Len(band_data), points)
             IN  IF Len(band_data) = 0 THEN Raise("IndexError")
                 ELSE Ok([k \in 1..points |->
                            RDiv(band_data[indices[k] + 1], MaxOrOne)])

get_band_waveform(frame_idx, band_idx, bands, points) ==
    LET f == ClampFrame(frame_idx)
    IN  IF band_idx < 0 \/ band_idx >= Len(bands) \/ BadFrame(f)
        THEN Raise("IndexError")
        ELSE LET band      == bands[band_idx + 1]
                 band_data == Masked(FrameData(f), MaskBins(band.min, band.max))
                 indices   == LinspaceInt(Len(band_data), points)
             IN  IF Len(band_data) = 0 THEN Ok([k \in 1..points |-> I(0)])
                 ELSE Ok([k \in 1..points |->
                            RDiv(band_data[indices[k] + 1], MaxOrOne)])

(***************************************************************************)
(* BeatDetector (beat_detector.py)                                         *)
(***************************************************************************)
\* bass_energy + low_mid_energy of a frame; the 250 Hz bin is in both masks
TotalEnergy(f) ==
    RAdd(RSum(Masked(FrameData(f), bass_mask)),
         RSum(Masked(FrameData(f), low_mid_mask)))

\* threshold = np.sum(magnitude[:, :]) / magnitude.shape[1] * 0.3
BeatThreshold == RMul(RDiv(RSum(AllMagnitudes), I(NFrames)), Norm(3, 10))

\* mutant of Attack: the ratio is not clamped to 1
Attack_NoMin(energy_change, threshold) ==
    RDiv(energy_change, RMul(threshold, I(2)))

\* mutant of Attack: the change is divided by four times the threshold
Attack_Quarter(energy_change, threshold) ==
    RMin(I(1), RDiv(energy_change, RMul(threshold, I(4))))

\* the attack branch: min(1.0, energy_change / (threshold * 2))
Attack(energy_change, threshold) ==
    RMin(I(1), RDiv(energy_change, RMul(threshold, I(2))))

\* mutant of Decay: the trail's factor 0.85 in place of 0.7
Decay_TrailFactor(intensity) == RMul(intensity, Norm(17, 20))

\* the decay branch: self.beat_intensity *= 0.7
Decay(intensity) == RMul(intensity, Norm(7, 10))

\* mutant of detect_beat: the attack is taken at energy_change >= threshold
detect_beat_NonStrict(frame_idx) ==
    LET f             == ClampFrame(frame_idx)
        total_energy  == TotalEnergy(f)
        energy_change == RSub(total_energy, prev_energy)
        threshold     == BeatThreshold
        intensity     ==
            IF RLeq(threshold, energy_change)
            THEN Attack(energy_change, threshold)
            ELSE Decay(beat_intensity)
    IN  [beat_intensity |-> intensity,
         prev_energy    |-> total_energy,
         returned       |-> intensity,
         total_energy   |-> total_energy]

\* one detect_beat call: the new fields, the value returned and the total
\* energy it computed
detect_beat(frame_idx) ==
    LET f             == ClampFrame(frame_idx)
        total_energy  == TotalEnergy(f)
        energy_change == RSub(total_energy, prev_energy)
        threshold     == BeatThreshold
        intensity     ==
            IF RLess(threshold, energy_change)
            THEN Attack(energy_change, threshold)
            ELSE Decay(beat_intensity)
    IN  [beat_intensity |-> intensity,
         prev_energy    |-> total_energy,
         returned       |-> intensity,
         total_energy   |-> total_energy]

\* BeatDetector.__init__
BeatInit ==
    /\ prev_energy = I(0)
    /\ beat_intensity = I(0)
    /\ beat_returned = I(0)
    /\ calls = 0
    /\ beat_before = I(0)
    /\ same_energy = FALSE
    /\ decay_run = 0
    /\ decay_base = I(0)

\* the effect of one detect_beat call on the detector and on its history
BeatStep(frame_idx) ==
    \E r \in {detect_beat(frame_idx)} :
        /\ beat_intensity' = r.beat_intensity
        /\ prev_energy' = r.prev_energy
        /\ beat_returned' = r.returned
        /\ calls' = calls + 1
        /\ beat_before' = beat_intensity
        /\ same_energy' = (r.total_energy = prev_energy)
        /\ decay_run' = IF r.total_energy = prev_energy THEN decay_run + 1 ELSE 0
        /\ decay_base' =
              IF r.total_energy = prev_energy THEN decay_base ELSE r.beat_intensity

\* AudioProcessor.__init__: load the audio, compute the spectrogram
AudioInit(inputs) ==
    \E audio_data \in inputs :
        /\ y = LoadAudio(audio_data)
        /\ magnitude \in Stft(y)

\* no query made yet
NoQuery ==
    [fn |-> "none", frame_idx |-> 0, band_idx |-> 0, points |-> 0,
     bands |-> <<>>, result |-> Ok(<<>>)]

(***************************************************************************)
(* config.py: palettes, resolution and animation parameters                *)
(***************************************************************************)
COLOR_PALETTES ==
    [rainbow |-> [colors     |-> <<0, 45, 90, 135, 180, 225, 270, 315>>,
                  saturation |-> I(1),
                  brightness |-> I(1)],
     autumn  |-> [colors     |-> <<0, 15, 30, 35, 40, 25, 20, 10>>,
                  saturation |-> Norm(9, 10),
                  brightness |-> Norm(17, 20)]]

\* DEFAULT_RESOLUTION
WIDTH == 1280

HEIGHT == 720

BASE_ROTATION_SPEED == Norm(1, 1000)

VOLUME_ROTATION_MULTIPLIER == Norm(15, 1000)

HUE_SHIFT_BASE == Norm(1, 2)

TRAIL_FADE_FACTOR == Norm(85, 100)

FADE_DURATION_SECONDS == I(2)

(***************************************************************************)
(* Images.  The model follows four pixels of the canvas.  What the drawing *)
(* library paints on a pixel is decided by where the pixel lies: the band  *)
(* strip that holds it and how far it is from that strip's centre line,    *)
(* as a fraction of the trace's displacement at full scale (reach 0 is the *)
(* centre line itself, which the flat trace of a silent band still         *)
(* paints); its distance in pixels from the centre of the canvas, on the   *)
(* horizontal axis, for the cover and the rings; and whether a glyph of    *)
(* the text overlay lies on it when the text is drawn at its position      *)
(* without a cover.  The Gaussian blur of the waveform layer and the       *)
(* rotation of the waveform canvas resample neighbouring pixels and are    *)
(* not followed (waveform_rotation is 'none').                             *)
(***************************************************************************)
PIXELS == <<
    [band_idx |-> 4, reach |-> I(0),       radius |-> 75,  text |-> FALSE],
    [band_idx |-> 4, reach |-> I(1),       radius |-> 151, text |-> FALSE],
    [band_idx |-> 5, reach |-> Norm(1, 2), radius |-> 240, text |-> TRUE],
    [band_idx |-> 0, reach |-> I(1),       radius |-> 500, text |-> FALSE] >>

Pix == 1..Len(PIXELS)

BLACK == <<0, 0, 0>>

WHITE == <<255, 255, 255>>

\* Image.new('RGB', (width, height), (0, 0, 0))
BlackImage == [p \in Pix |-> BLACK]

\* (array * factor).astype(np.uint8) of an array of values 0..255 and a
\* factor in [0, 1]: every channel multiplied by the factor and truncated
Scale(img, factor) ==
    [p \in Pix |-> [c \in 1..3 |-> Trunc(RMul(I(img[p][c]), factor))]]

\* img.paste(layer, (0, 0), layer) on one pixel: the colour blended over the
\* pixel with the layer's alpha, 0..255
Blend(pixel, color, alpha) ==
    [c \in 1..3 |-> (pixel[c] * (255 - alpha) + color[c] * alpha) \div 255]

\* abs() of a number
RAbs(a) == <<Abs(a[1]), a[2]>>

\* EffectsRenderer.hsv_to_rgb
hsv_to_rgb(hue, s, v) ==
    LET h == RMod(hue, 360)
        c == RMul(v, s)
        x == RMul(c, RSub(I(1), RAbs(RSub(RMod(RDiv(h, I(60)), 2), I(1)))))
        m == RSub(v, c)
        rgb ==
            IF      RLess(h, I(60))  THEN <<c, x, I(0)>>
            ELSE IF RLess(h, I(120)) THEN <<x, c, I(0)>>
            ELSE IF RLess(h, I(180)) THEN <<I(0), c, x>>
            ELSE IF RLess(h, I(240)) THEN <<I(0), x, c>>
            ELSE IF RLess(h, I(300)) THEN <<x, I(0), c>>
            ELSE                          <<c, I(0), x>>
    IN  [k \in 1..3 |->
            Trunc(RMin(I(255), RMul(RAdd(rgb[k], m), Norm(255 * 12, 10))))]

\* MusicVisualizer._setup_bands: the bands with the palette's colours
SetupBands(color_palette) ==
    IF color_palette \in DOMAIN COLOR_PALETTES
    THEN LET palette == COLOR_PALETTES[color_palette]
         IN  [i \in 1..Len(FREQUENCY_BANDS) |->
                 [name       |-> FREQUENCY_BANDS[i].name,
                  min        |-> FREQUENCY_BANDS[i].min,
                  max        |-> FREQUENCY_BANDS[i].max,
                  hue_offset |-> palette.colors[((i - 1) % Len(palette.colors)) + 1],
                  saturation |-> palette.saturation,
                  brightness |-> palette.brightness]]
    ELSE [i \in 1..Len(FREQUENCY_BANDS) |->
                 [name       |-> FREQUENCY_BANDS[i].name,
                  min        |-> FREQUENCY_BANDS[i].min,
                  max        |-> FREQUENCY_BANDS[i].max,
                  hue_offset |-> FREQUENCY_BANDS[i].hue_offset,
                  saturation |-> I(1),
                  brightness |-> I(1)]]

(***************************************************************************)
(* EffectsRenderer (effects.py)                                            *)
(***************************************************************************)
\* waveform_points: the model resamples a band to MaxPoints points where the
\* code asks for 150 (100 in a preview)
waveform_points == MaxPoints

\* the pixel's colour on the layer draw_waveforms_with_glow paints: the band's
\* strip is painted between its centre line and the displaced trace, in the
\* colour of layer 0 (the filled polygon); the centre line carries the line of
\* layer 1, drawn last, or the particle of a peak above 0.7
WaveformPixel(p, waveform, hue) ==
    LET band     == self_bands[PIXELS[p].band_idx + 1]
        value    == waveform[1]
        base_hue == RMod(RAdd(hue, I(band.hue_offset)), 360)
    IN  IF PIXELS[p].reach = I(0)
        THEN IF RLess(Norm(7, 10), value)
             THEN hsv_to_rgb(base_hue, I(1), I(1))
             ELSE IF Len(waveform) > 1
             THEN hsv_to_rgb(RMod(RAdd(base_hue, I(40)), 360),
                             band.saturation, band.brightness)
             ELSE BLACK
        ELSE IF Len(waveform) > 1 /\ RLeq(PIXELS[p].reach, value)
             THEN hsv_to_rgb(base_hue, band.saturation, band.brightness)
             ELSE BLACK

\* draw_waveforms_with_glow on a black canvas: the layer it pastes, or the
\* ValueError of int() of a NaN coordinate
draw_waveforms_with_glow(frame_idx, hue) ==
    LET waveforms ==
            [b \in 1..Len(self_bands) |->
                get_band_waveform(frame_idx, b - 1, self_bands, waveform_points).value]
    IN  IF \E b \in 1..Len(self_bands) : \E i \in 1..Len(waveforms[b]) :
               IsNaN(waveforms[b][i])
        THEN Raise("ValueError")
        ELSE Ok([p \in Pix |->
                    WaveformPixel(p, waveforms[PIXELS[p].band_idx + 1], hue)])

\* the star the model follows: the pixel it lies on (0: none of the pixels
\* followed) and its depth z
StarPositions == {0, 2}

Stars == { [pos |-> p, z |-> I(1)] : p \in StarPositions }

\* mutant of draw_starfield: the star is drawn although the starfield is off
DrawStarfield_Always(img, star, enabled) ==
    [p \in Pix |->
        IF p = star.pos
        THEN Blend(img[p], WHITE, Trunc(RAdd(I(150), RMul(star.z, I(50)))))
        ELSE img[p]]

\* update_starfield and draw_starfield, called when the starfield is enabled:
\* the star's core is pasted in white with alpha int(150 + z * 50)
DrawStarfield(img, star, enabled) ==
    [p \in Pix |->
        IF enabled /\ p = star.pos
        THEN Blend(img[p], WHITE, Trunc(RAdd(I(150), RMul(star.z, I(50)))))
        ELSE img[p]]

\* the colour of the cover image, resized, on every pixel it is pasted on
COVER_COLOR == <<200, 100, 50>>

\* base_size = int(min(width, height) * 0.525 * cover_size), cover_size 1.0
base_size == Trunc(RMul(I(IF WIDTH < HEIGHT THEN WIDTH ELSE HEIGHT), Norm(525, 1000)))

\* center_size of the round cover
CenterSize(volume_intensity, beat) ==
    Trunc(RMul(RMul(I(base_size), Norm(6, 10)),
               RAdd(I(1), RAdd(RMul(volume_intensity, Norm(3, 10)),
                               RMul(beat, Norm(5, 10))))))

\* does the cover image, pasted at the centre, lie on the pixel
CoverOn(p, volume_intensity, beat) ==
    /\ cfg.cover_image
    /\ IF cfg.cover_shape = "square"
       THEN PIXELS[p].radius <= Trunc(RMul(I(base_size), Norm(12, 10))) \div 2
       ELSE PIXELS[p].radius <= CenterSize(volume_intensity, beat)

\* ring_size of ring r = 0, 1, 2 (ring_rotation 'z': width = height = size)
RingSize(r, volume_intensity, beat) ==
    LET base_ring_size == RMul(I(base_size), Norm(4 + 2 * r, 10))
    IN  Trunc(RAdd(base_ring_size,
                   RAdd(RMul(beat, I(80)),
                        RMul(RMul(volume_intensity, Norm(5, 10)), base_ring_size))))

\* line_width of the rings
LineWidth(volume_intensity, beat) ==
    Trunc(RAdd(I(3), RAdd(RMul(volume_intensity, I(4)), RMul(beat, I(6)))))

\* The outline of ring r that lies on a pixel at the given distance from the
\* centre: 0 for the main ring, glow = 1..8 for its halo of box size + 2 *
\* glow and width line_width + glow, 9 for none.  The main ring is drawn
\* after the halo, and the halo from glow 8 down to 1.
RingHit(radius, size, line_width) ==
    LET hits == { glow \in 0..8 : /\ size + glow - line_width < radius
                                  /\ radius <= size + 2 * glow }
    IN  IF hits = {} THEN 9 ELSE CHOOSE g \in hits : \A h \in hits : g <= h

\* alpha of the outline: 255 for the main ring
RingAlpha(glow, beat) ==
    IF glow = 0 THEN 255
    ELSE Trunc(RMul(RAdd(I(200), RMul(beat, I(55))), Norm(8 - glow, 8)))

\* the rings pasted on one pixel: the ring drawn last wins on the ring layer
RingPixel(pixel, p, volume_intensity, beat, hue) ==
    LET hit(r) == RingHit(PIXELS[p].radius, RingSize(r, volume_intensity, beat),
                          LineWidth(volume_intensity, beat))
        color(r) == hsv_to_rgb(RMod(RAdd(hue, I(r * 60)), 360),
                               self_bands[1].saturation, self_bands[1].brightness)
    IN  IF      hit(2) <= 8 THEN Blend(pixel, color(2), RingAlpha(hit(2), beat))
        ELSE IF hit(1) <= 8 THEN Blend(pixel, color(1), RingAlpha(hit(1), beat))
        ELSE IF hit(0) <= 8 THEN Blend(pixel, color(0), RingAlpha(hit(0), beat))
        ELSE pixel

\* mutant of draw_cover_and_rings: the rings are drawn whatever
\* disable_rings says
draw_cover_and_rings_Always(img, volume_intensity, beat, hue) ==
    [p \in Pix |->
        RingPixel(IF CoverOn(p, volume_intensity, beat) THEN COVER_COLOR ELSE img[p],
                  p, volume_intensity, beat, hue)]

\* draw_cover_and_rings
draw_cover_and_rings(img, volume_intensity, beat, hue) ==
    [p \in Pix |->
        LET covered == IF CoverOn(p, volume_intensity, beat)
                       THEN COVER_COLOR ELSE img[p]
        IN  IF cfg.disable_rings THEN covered
            ELSE RingPixel(covered, p, volume_intensity, beat, hue)]

\* the longest text-fade history kept
TEXT_FADE_WINDOW == 60

\* mutant of TextHistory: the newest sample is dropped
TextHistory_DropNewest(history, volume_intensity) ==
    LET appended == Append(history, volume_intensity)
    IN  IF Len(appended) > TEXT_FADE_WINDOW THEN history ELSE appended

\* draw_text_overlay, the history: the sample appended, the oldest dropped
TextHistory(history, volume_intensity) ==
    LET appended == Append(history, volume_intensity)
    IN  IF Len(appended) > TEXT_FADE_WINDOW THEN Tail(appended) ELSE appended

\* draw_text_overlay, text_alpha = int(alpha * 255)
TextAlpha(history, beat) ==
    LET base_alpha == RAdd(Norm(3, 10), RMul(RMean(history), Norm(7, 10)))
        alpha      == RMin(I(1), RAdd(base_alpha, RMul(beat, Norm(2, 10))))
    IN  Trunc(RMul(alpha, I(255)))

\* draw_text_overlay, the image: white glyphs pasted with text_alpha; below a
\* cover the text starts at row height // 2 + base_size + 40, off the canvas
draw_text_overlay(img, history, beat) ==
    LET row == IF cfg.cover_image THEN (HEIGHT \div 2) + base_size + 40
               ELSE Trunc(RMul(I(HEIGHT), Norm(7, 10)))
    IN  [p \in Pix |->
            IF PIXELS[p].text /\ row < HEIGHT
            THEN Blend(img[p], WHITE, TextAlpha(history, beat))
            ELSE img[p]]

(***************************************************************************)
(* MusicVisualizer (visualizer.py)                                         *)
(***************************************************************************)
\* self.trail_buffer before the first frame
None == <<>>

\* mutant of FadeTrail: the trail is kept at full brightness
FadeTrail_Keep(buffer) ==
    IF buffer = None THEN BlackImage ELSE buffer

\* initialise or fade the trail buffer
FadeTrail(buffer) ==
    IF buffer = None THEN BlackImage ELSE Scale(buffer, TRAIL_FADE_FACTOR)

\* mutant of Composite: the layer is pasted whole, its black pixels too
Composite_NoMask(img, layer) == [p \in Pix |-> layer[p]]

\* composite the waveform layer: img_array[mask] = waveform_array[mask] with
\* mask = waveform_array.sum(axis=2) > 0
Composite(img, layer) ==
    [p \in Pix |->
        IF layer[p][1] + layer[p][2] + layer[p][3] > 0 THEN layer[p] ELSE img[p]]

\* fade_frames = int(FADE_DURATION_SECONDS * self.fps)
FadeFrames == Trunc(RMul(FADE_DURATION_SECONDS, I(cfg.fps)))

\* frames_from_end <= fade_frames
Fading(frame_idx, total) == total - frame_idx <= FadeFrames

\* mutant of FadeAmount: the fade grows with the frames remaining
FadeAmount_Inverted(frame_idx, total) == Norm(total - frame_idx, FadeFrames)

\* fade_amount = 1.0 - (frames_from_end / fade_frames)
FadeAmount(frame_idx, total) ==
    RSub(I(1), Norm(total - frame_idx, FadeFrames))

\* apply fade to black at the end
FadeOut(img, frame_idx, total) ==
    IF Fading(frame_idx, total)
    THEN Scale(img, RSub(I(1), FadeAmount(frame_idx, total)))
    ELSE img

\* mutant of DrawnBeat: the drawing calls get the intensity the detector held
\* before its update
DrawnBeat_Stale(beat) == beat_intensity

\* the beat_intensity passed to draw_cover_and_rings and draw_text_overlay:
\* the value the detect_beat call of this frame returned
DrawnBeat(beat) == beat.returned

\* mutant of TrailStored: the trail buffer is updated after the fade
TrailStored_AfterFade(img, faded) == faded

\* update trail buffer: self.trail_buffer = img.copy(), made before the fade
\* to black is applied to img
TrailStored(img, faded) == img

\* mutant of VolumeOf: the band values are summed, not averaged
VolumeOf_Sum(band_values) ==
    RDiv(IF band_values # <<>> THEN RSum(band_values) ELSE I(0), MaxOrOne)

\* avg_volume = np.mean(band_values) if band_values else 0, max_possible =
\* np.max(magnitude) if np.max(magnitude) > 0 else 1, and their quotient
VolumeOf(band_values) ==
    LET avg_volume   == IF band_values # <<>> THEN RMean(band_values) ELSE I(0)
        max_possible == MaxOrOne
    IN  RDiv(avg_volume, max_possible)

\* volume_intensity = avg_volume / max_possible
VolumeIntensity(frame_idx) ==
    VolumeOf(get_band_values(frame_idx, self_bands).value)

\* The render_frame(frame_idx, total_frames) call of a visualizer, for every
\* star its renderer may hold and every position that star may move to when
\* the starfield is updated: the exception raised if any, the frame
\* returned, the fields of the visualizer after the call and the values
\* computed on the way.
RenderFrames(frame_idx, total) ==
    LET trail     == FadeTrail(trail_buffer)
        starfield == ~cfg.disable_starfield
        \* the drawing of the frame, given what the analysis of the frame
        \* computed
        Drawn(volume_intensity, beat, hue, waveform) ==
            LET rotation_speed ==
                    RAdd(BASE_ROTATION_SPEED,
                         RMul(volume_intensity, VOLUME_ROTATION_MULTIPLIER))
                raises  == (starfield /\ IsNaN(volume_intensity))
                              \/ waveform.raised # ""
                history == IF cfg.text_overlay
                           THEN TextHistory(text_fade_history, volume_intensity)
                           ELSE text_fade_history
                common ==
                    [raised            |-> IF raises THEN "ValueError" ELSE "",
                     frame_idx         |-> frame_idx,
                     total_frames      |-> total,
                     volume_intensity  |-> volume_intensity,
                     beat              |-> beat,
                     rotation          |-> RAdd(rotation, rotation_speed),
                     cover_rotation    |->
                        RSub(cover_rotation, RMul(rotation_speed, I(2))),
                     hue_offset        |-> hue,
                     faded_trail       |-> trail,
                     waveform          |-> IF raises THEN None ELSE waveform.value,
                     text_fade_history |->
                        IF raises THEN text_fade_history ELSE history,
                     center_size       |->
                        IF ~raises /\ cfg.cover_image /\ cfg.cover_shape = "round"
                        THEN CenterSize(volume_intensity, DrawnBeat(beat))
                        ELSE 0 - 1,
                     ring_sizes        |->
                        IF ~raises /\ ~cfg.disable_rings
                        THEN [k \in 1..3 |->
                                RingSize(k - 1, volume_intensity, DrawnBeat(beat))]
                        ELSE <<>>,
                     text_alpha        |->
                        IF ~raises /\ cfg.text_overlay
                        THEN TextAlpha(history, DrawnBeat(beat)) ELSE 0 - 1,
                     fading            |-> Fading(frame_idx, total),
                     fade_amount       |-> FadeAmount(frame_idx, total)]
            IN  [star \in Stars, moved \in Stars |->
                    LET new_star   == IF ~starfield THEN star
                                      ELSE IF IsNaN(volume_intensity)
                                           THEN [pos |-> 0, z |-> star.z]
                                           ELSE moved
                        with_stars == DrawStarfield(trail, new_star, starfield)
                        composited == Composite(with_stars, waveform.value)
                        with_rings ==
                            draw_cover_and_rings(composited, volume_intensity,
                                                 DrawnBeat(beat), hue)
                        Overlaid(rings) ==
                            IF cfg.text_overlay
                            THEN draw_text_overlay(rings, history, DrawnBeat(beat))
                            ELSE rings
                        Emitted(img) ==
                            [common       |-> common,
                             stars        |-> new_star,
                             working      |-> with_stars,
                             composited   |-> IF raises THEN None ELSE composited,
                             trail_buffer |->
                                IF raises THEN trail
                                ELSE TrailStored(img, FadeOut(img, frame_idx, total)),
                             img          |-> IF raises THEN None
                                              ELSE FadeOut(img, frame_idx, total)]
                    IN  Emitted(Overlaid(with_rings))]
        \* the analysis of the frame: the hue it shifts to and the waveforms
        Analysed(volume_intensity, beat) ==
            LET hue == RMod(RAdd(RAdd(hue_offset, HUE_SHIFT_BASE),
                                 volume_intensity), 360)
            IN  Drawn(volume_intensity, beat, hue,
                      draw_waveforms_with_glow(frame_idx, hue))
    IN  Analysed(VolumeIntensity(frame_idx), detect_beat(frame_idx))

\* what two render_frame calls are compared on: the frame emitted and the
\* successor state of the visualizer and of its beat detector
Observable(r) ==
    [raised |-> r.common.raised, img |-> r.img, rotation |-> r.common.rotation,
     cover_rotation |-> r.common.cover_rotation,
     hue_offset |-> r.common.hue_offset, trail_buffer |-> r.trail_buffer,
     text_fade_history |-> r.common.text_fade_history,
     beat_intensity |-> r.common.beat.beat_intensity,
     prev_energy |-> r.common.beat.prev_energy]

\* no render_frame call made yet
NoFrame == [calls |-> 0, trail_before |-> None, hue_before |-> I(0),
            rotation_before |-> I(0), fade_before |-> I(0 - 1), drawn |-> {},
            outcomes |-> {}, r |-> <<>>]

\* the configurations explored: nothing but the waveforms; the starfield; a
\* palette name that is not in COLOR_PALETTES;
\* rings and text; a square cover with text; everything, with a round cover
CONFIGS ==
    LET base == [color_palette |-> "rainbow", cover_image |-> FALSE,
                 cover_shape |-> "square", text_overlay |-> FALSE,
                 disable_rings |-> TRUE, disable_starfield |-> TRUE,
                 preview_seconds |-> 0]
    IN  { base,
          [base EXCEPT !.disable_starfield = FALSE],
          [base EXCEPT !.color_palette = "neon"],
          [base EXCEPT !.disable_rings = FALSE, !.text_overlay = TRUE,
                       !.color_palette = "autumn"],
          [base EXCEPT !.cover_image = TRUE, !.text_overlay = TRUE],
          [base EXCEPT !.cover_image = TRUE, !.cover_shape = "round",
                       !.text_overlay = TRUE, !.disable_rings = FALSE,
                       !.disable_starfield = FALSE] }

\* MusicVisualizer.__init__ after the AudioProcessor: the animation state
VisualizerInit ==
    /\ rotation = I(0)
    /\ cover_rotation = I(0)
    /\ hue_offset = I(0)
    /\ text_fade_history = <<>>
    /\ volume_samples = <<>>
    /\ trail_buffer = None
    /\ stars \in Stars
    /\ frame = NoFrame

\* render() not started: no encoder, no files
RenderIdle ==
    /\ pc = "init"
    /\ cur_frame = 0
    /\ total_frames = 0
    /\ out = "none"
    /\ temp_video = "absent"
    /\ output_file = "absent"
    /\ written = <<>>

\* RenderManager.__init__
RenderManagerInit ==
    /\ is_rendering = FALSE
    /\ cancel_render_flag = FALSE
    /\ render_btn = "normal"
    /\ preview_btn = "normal"
    /\ cancel_dialog = FALSE
    /\ after_queue = <<>>
    /\ renders = 0
    /\ exit = ""
    /\ handlers = <<>>
    /\ preview_thread = "none"
    /\ previews_alive = 0
    /\ preview_log = "none"
    /\ start_result = "none"
    /\ cancel_log = [stale |-> FALSE, confirmed |-> FALSE]

\* the visualizer of the unit specifications, never rendered with
VisualizerUnused ==
    /\ cfg = [color_palette |-> "rainbow", cover_image |-> FALSE,
              cover_shape |-> "square", text_overlay |-> FALSE,
              disable_rings |-> TRUE, disable_starfield |-> TRUE,
              preview_seconds |-> 0, fps |-> 1]
    /\ self_bands = SetupBands(cfg.color_palette)
    /\ rotation = I(0)
    /\ cover_rotation = I(0)
    /\ hue_offset = I(0)
    /\ text_fade_history = <<>>
    /\ volume_samples = <<>>
    /\ trail_buffer = None
    /\ stars = [pos |-> 0, z |-> I(1)]
    /\ frame = NoFrame
    /\ RenderIdle
    /\ RenderManagerInit

(***************************************************************************)
(* SpecBeat: one BeatDetector called with any frame indices over any       *)
(* spectrogram.                                                            *)
(***************************************************************************)
InitBeat ==
    /\ AudioInit(UnitAudio)
    /\ BeatInit
    /\ q = NoQuery
    /\ VisualizerUnused

DetectBeat ==
    /\ calls < MaxCalls
    /\ \E frame_idx \in FrameIdxs : BeatStep(frame_idx)
    /\ UNCHANGED <<audio_vars, q, config_vars, visualizer_vars, render_vars,
                   gui_vars>>

NextBeat == DetectBeat

SpecBeat == InitBeat /\ [][NextBeat]_vars


(***************************************************************************)
(* SpecAudio: the two queries of one AudioProcessor, each applied once to  *)
(* every spectrogram (a query does not change the processor).              *)
(***************************************************************************)
\* one band covering every bin, to resample a slice of several bins
WIDE_BANDS == << [name |-> "Wide", min |-> 0, max |-> 1000, hue_offset |-> 0] >>

BandLists == { FREQUENCY_BANDS, WIDE_BANDS }

\* the (band list, band index) pairs asked of get_band_waveform: an empty
\* band (Low-Mid), the bands of one bin (Mid, Upper-Mid), the wide band
WaveformBands ==
    { <<FREQUENCY_BANDS, 3>>, <<FREQUENCY_BANDS, 4>>, <<FREQUENCY_BANDS, 5>>,
      <<WIDE_BANDS, 0>> }

InitAudio ==
    /\ AudioInit(UnitAudio)
    /\ BeatInit
    /\ q = NoQuery
    /\ VisualizerUnused

BandValuesCall ==
    /\ q.fn = "none"
    /\ \E frame_idx \in FrameIdxs, bands \in BandLists :
          q' = [fn |-> "band_values", frame_idx |-> frame_idx, band_idx |-> 0,
                points |-> 0, bands |-> bands,
                result |-> get_band_values(frame_idx, bands)]
    /\ UNCHANGED <<audio_vars, beat_vars, config_vars, visualizer_vars,
                   render_vars, gui_vars>>

BandWaveformCall ==
    /\ q.fn = "none"
    /\ \E frame_idx \in FrameIdxs, bb \in WaveformBands, points \in 1..MaxPoints :
          q' = [fn |-> "band_waveform", frame_idx |-> frame_idx,
                band_idx |-> bb[2], points |-> points, bands |-> bb[1],
                result |-> get_band_waveform(frame_idx, bb[2], bb[1], points)]
    /\ UNCHANGED <<audio_vars, beat_vars, config_vars, visualizer_vars,
                   render_vars, gui_vars>>

NextAudio == BandValuesCall \/ BandWaveformCall

SpecAudio == InitAudio /\ [][NextAudio]_vars

(***************************************************************************)
(* Spec: MusicVisualizer.render() of the command line, for every           *)
(* configuration and every audio file.                                     *)
(***************************************************************************)
\* The decoded samples of the rendered files: a silent file and one that is
\* not, three samples long.
RenderAudio == { <<0, 0, 0>>, <<1, 0 - 2, 1>> }

\* the spectra of one time frame: silence, a 250 Hz tone and a broadband
\* sound at every level
Sounds ==
    { <<I(0), I(0), I(0)>> }
        \cup { <<I(0), I(m), I(0)>> : m \in 1..MaxMag }
        \cup { <<I(m), I(m), I(m)>> : m \in 1..MaxMag }

\* _calculate_stft of the rendered files: every frame holds one of the
\* sounds and the padded frame after the last sample is silent; samples that
\* are not all zero give a spectrogram that is not all zero
RenderStft(wave) ==
    IF \E i \in 1..Len(wave) : IsNaN(wave[i])
    THEN Stft(wave)
    ELSE { [b \in Bins |-> [f \in 1..StftFrames(wave) |->
                IF f = StftFrames(wave) THEN I(0) ELSE s[f][b]]] :
           s \in { t \in [1..Len(wave) -> Sounds] :
                     \E f \in 1..Len(wave) : t[f] # <<I(0), I(0), I(0)>> } }

\* the sample rate of the file: one sample per video frame, hop_length 1
SampleRate == cfg.fps

\* self.duration = len(y) / sr
Duration == Norm(Len(y), SampleRate)

\* total_frames = int(render_duration * self.fps)
TotalFrames ==
    LET render_duration ==
            IF cfg.preview_seconds # 0
            THEN RMin(I(cfg.preview_seconds), Duration)
            ELSE Duration
    IN  Trunc(RMul(render_duration, I(cfg.fps)))

Init ==
    /\ \E c \in CONFIGS, fps \in 1..MaxFps :
          cfg = [color_palette |-> c.color_palette, cover_image |-> c.cover_image,
                 cover_shape |-> c.cover_shape, text_overlay |-> c.text_overlay,
                 disable_rings |-> c.disable_rings,
                 disable_starfield |-> c.disable_starfield,
                 preview_seconds |-> c.preview_seconds, fps |-> fps]
    /\ self_bands = SetupBands(cfg.color_palette)
    /\ \E audio_data \in RenderAudio :
          /\ y = LoadAudio(audio_data)
          /\ magnitude \in RenderStft(y)
    /\ BeatInit
    /\ q = NoQuery
    /\ VisualizerInit
    /\ RenderIdle
    /\ RenderManagerInit

\* the effect of one render_frame call on the visualizer, with the record of
\* the call; every position the star can move to, and the other stars the
\* renderer could hold, give the outcomes the call can have
RenderFrameStep(frame_idx, total) ==
    \E all \in {RenderFrames(frame_idx, total)} :
    \E moved \in Stars :
    \E r \in {all[stars, moved]} :
        /\ rotation' = r.common.rotation
        /\ cover_rotation' = r.common.cover_rotation
        /\ hue_offset' = r.common.hue_offset
        /\ trail_buffer' = r.trail_buffer
        /\ text_fade_history' = r.common.text_fade_history
        /\ volume_samples' =
              IF cfg.text_overlay /\ r.common.raised = ""
              THEN Append(volume_samples, r.common.volume_intensity)
              ELSE volume_samples
        /\ stars' = r.stars
        /\ frame' = [calls |-> frame.calls + 1, trail_before |-> trail_buffer,
                     hue_before |-> hue_offset, rotation_before |-> rotation,
                     fade_before |->
                        IF frame.calls > 0 /\ frame.r.common.fading
                        THEN frame.r.common.fade_amount ELSE I(0 - 1),
                     drawn |->
                        IF r.common.raised # "" THEN frame.drawn
                        ELSE frame.drawn \cup
                                { p \in Pix : r.common.waveform[p] # BLACK },
                     outcomes |-> { Observable(all[sm]) : sm \in DOMAIN all },
                     r |-> r]
        /\ BeatStep(frame_idx)

\* render(): the frame count, the temporary file and the video writer
RenderStart ==
    /\ pc = "init"
    /\ total_frames' = TotalFrames
    /\ temp_video' = "exists"
    /\ out' = "open"
    /\ pc' = "frames"
    /\ UNCHANGED <<audio_vars, q, beat_vars, config_vars, visualizer_vars, cur_frame,
                   output_file, written, gui_vars>>

\* one iteration of the frame loop: render_frame, then out.write; an
\* exception of render_frame leaves render()
RenderFrame ==
    /\ pc = "frames"
    /\ cur_frame < total_frames
    /\ RenderFrameStep(cur_frame, total_frames)
    /\ IF frame'.r.common.raised # ""
       THEN /\ pc' = "raised"
            /\ UNCHANGED <<cur_frame, written>>
       ELSE /\ pc' = "frames"
            /\ cur_frame' = cur_frame + 1
            /\ written' = Append(written, cur_frame)
    /\ UNCHANGED <<audio_vars, q, config_vars, total_frames, out, temp_video,
                   output_file, gui_vars>>

\* the loop is over: out.release()
RenderRelease ==
    /\ pc = "frames"
    /\ cur_frame >= total_frames
    /\ out' = "released"
    /\ pc' = "mux"
    /\ UNCHANGED <<audio_vars, q, beat_vars, config_vars, visualizer_vars, cur_frame,
                   total_frames, temp_video, output_file, written, gui_vars>>

\* the ways subprocess.run(['ffmpeg', ...], check=True) ends
MuxOutcomes == {"ok", "CalledProcessError", "FileNotFoundError"}

\* merge video with audio: on success the temporary file is removed; a
\* CalledProcessError is caught and reported, any other exception leaves
\* render()
Mux ==
    /\ pc = "mux"
    /\ \E outcome \in MuxOutcomes :
          /\ output_file' = IF outcome = "ok" THEN "exists" ELSE output_file
          /\ temp_video' = IF outcome = "ok" THEN "absent" ELSE temp_video
          /\ pc' = IF outcome = "ok" THEN "done"
                   ELSE IF outcome = "CalledProcessError" THEN "done_silent"
                   ELSE "raised"
    /\ UNCHANGED <<audio_vars, q, beat_vars, config_vars, visualizer_vars, cur_frame,
                   total_frames, out, written, gui_vars>>

Next == RenderStart \/ RenderFrame \/ RenderRelease \/ Mux

Spec == Init /\ [][Next]_vars


(***************************************************************************)
(* SpecVolume: the volume_intensity render_frame computes, for every       *)
(* spectrogram of one sample's file at levels up to MaxLevel and every     *)
(* frame index.                                                            *)
(***************************************************************************)
\* _calculate_stft as Stft, with magnitudes up to MaxLevel
VolumeStft(wave) ==
    IF \E i \in 1..Len(wave) : IsNaN(wave[i])
    THEN { [b \in Bins |-> [f \in 1..StftFrames(wave) |-> NaN]] }
    ELSE [Bins -> [1..StftFrames(wave) -> {I(m) : m \in 0..MaxLevel}]]

InitVolume ==
    /\ \E audio_data \in UnitAudio :
          /\ y = LoadAudio(audio_data)
          /\ magnitude \in VolumeStft(y)
    /\ BeatInit
    /\ q = NoQuery
    /\ VisualizerUnused

\* the first four lines of render_frame: the band values of the frame, their
\* mean and the quotient by the global maximum
VolumeCall ==
    /\ q.fn = "none"
    /\ \E frame_idx \in FrameIdxs :
          q' = [fn |-> "volume_intensity", frame_idx |-> frame_idx,
                band_idx |-> 0, points |-> 0, bands |-> self_bands,
                result |-> Ok(VolumeIntensity(frame_idx))]
    /\ UNCHANGED <<audio_vars, beat_vars, config_vars, visualizer_vars,
                   render_vars, gui_vars>>

NextVolume == VolumeCall

SpecVolume == InitVolume /\ [][NextVolume]_vars

(***************************************************************************)
(* SpecGui: the RenderManager of the GUI (gui_renderer.py).  The Tk main   *)
(* loop runs the user's clicks and the callbacks passed to root.after; a   *)
(* worker thread runs _render_video_background.                            *)
(***************************************************************************)
\* the settings of the controls panel explored: nothing but the waveforms,
\* and a square cover with text; the palette box offers known names only
GuiSettings ==
    { c \in CONFIGS : /\ c.disable_starfield
                      /\ c.disable_rings
                      /\ c.color_palette \in DOMAIN COLOR_PALETTES }

\* the decoded samples of the files selected in the GUI: a silent file and
\* one that is not, two samples long
GuiAudio == { <<0, 0>>, <<1, 0 - 2>> }

\* the spectrograms of the files selected in the GUI: the same sound in
\* every frame, at the lowest level
GuiStft(wave) ==
    { m \in RenderStft(wave) :
        \A b \in Bins :
            /\ IsNaN(m[b][1]) \/ RLeq(m[b][1], I(1))
            /\ \A f \in 2..(StftFrames(wave) - 1) : m[b][f] = m[b][1] }

InitGui ==
    /\ \E c \in GuiSettings :
          cfg = [color_palette |-> c.color_palette, cover_image |-> c.cover_image,
                 cover_shape |-> c.cover_shape, text_overlay |-> c.text_overlay,
                 disable_rings |-> c.disable_rings,
                 disable_starfield |-> c.disable_starfield,
                 preview_seconds |-> c.preview_seconds, fps |-> 1]
    /\ self_bands = SetupBands(cfg.color_palette)
    /\ \E audio_data \in GuiAudio :
          /\ y = LoadAudio(audio_data)
          /\ magnitude \in GuiStft(y)
    /\ BeatInit
    /\ q = NoQuery
    /\ VisualizerInit
    /\ stars.pos = 0
    /\ RenderIdle
    /\ RenderManagerInit

\* mutant of StartRenderCall: cancel_render_flag is left as it is
StartRenderCall_KeepFlag ==
    /\ IF is_rendering
       THEN /\ start_result' = "False"
            /\ UNCHANGED <<is_rendering, cancel_render_flag, render_btn,
                           preview_btn, cancel_dialog, after_queue, renders,
                           exit, handlers, preview_vars, render_vars>>
       ELSE /\ is_rendering' = TRUE
            /\ render_btn' = "disabled"
            /\ preview_btn' = "disabled"
            /\ renders' = renders + 1
            /\ exit' = ""
            /\ pc' = "start"
            /\ output_file' = "absent"
            /\ start_result' = "True"
            /\ UNCHANGED <<preview_vars, cancel_dialog, after_queue, handlers,
                           cur_frame, total_frames, out, temp_video, written,
                           cancel_render_flag>>
    /\ UNCHANGED <<audio_vars, q, beat_vars, config_vars, visualizer_vars>>

\* mutant of StartRender: is_rendering is not looked at
StartRender_NoGuard ==
    /\ renders < MaxRenders \/ is_rendering
    /\ is_rendering' = TRUE
    /\ cancel_render_flag' = FALSE
    /\ render_btn' = "disabled"
    /\ preview_btn' = "disabled"
    /\ renders' = renders + 1
    /\ exit' = ""
    /\ pc' = "start"
    /\ output_file' = "absent"
    /\ start_result' = "True"
    /\ UNCHANGED <<preview_vars, cancel_dialog, after_queue, handlers,
                   cur_frame, total_frames, out, temp_video, written>>
    /\ UNCHANGED <<audio_vars, q, beat_vars, config_vars, visualizer_vars,
                   cancel_log>>

\* start_render: refused while a render is running; else the flags are set,
\* the buttons disabled and the worker thread started.  The output file is
\* the one of this render.
StartRenderCall ==
    /\ IF is_rendering
       THEN /\ start_result' = "False"
            /\ UNCHANGED <<is_rendering, cancel_render_flag, render_btn,
                           preview_btn, cancel_dialog, after_queue, renders,
                           exit, handlers, preview_vars, render_vars>>
       ELSE /\ is_rendering' = TRUE
            /\ cancel_render_flag' = FALSE
            /\ render_btn' = "disabled"
            /\ preview_btn' = "disabled"
            /\ renders' = renders + 1
            /\ exit' = ""
            /\ pc' = "start"
            /\ output_file' = "absent"
            /\ start_result' = "True"
            /\ UNCHANGED <<preview_vars, cancel_dialog, after_queue, handlers,
                           cur_frame, total_frames, out, temp_video, written>>
    /\ UNCHANGED <<audio_vars, q, beat_vars, config_vars, visualizer_vars>>

\* render_video of the window, then start_render, up to MaxRenders renders
StartRender ==
    /\ renders < MaxRenders \/ is_rendering
    /\ StartRenderCall
    /\ UNCHANGED cancel_log

\* the Cancel button, shown while a render runs: cancel_render opens its
\* confirmation dialog, during which the main loop keeps running callbacks
CancelAsk ==
    /\ is_rendering
    /\ ~cancel_dialog
    /\ cancel_dialog' = TRUE
    /\ UNCHANGED <<preview_vars, start_result, cancel_log, audio_vars, q, beat_vars, config_vars, visualizer_vars,
                   render_vars, is_rendering, cancel_render_flag, render_btn,
                   preview_btn, after_queue, renders, exit, handlers>>

\* the user answers the dialog of cancel_render: yes sets cancel_render_flag
CancelAnswerCall(yes) ==
    /\ cancel_dialog
    /\ cancel_dialog' = FALSE
    /\ cancel_render_flag' = IF yes THEN TRUE ELSE cancel_render_flag
    /\ UNCHANGED <<preview_vars, start_result, audio_vars, q, beat_vars, config_vars, visualizer_vars,
                   render_vars, is_rendering, render_btn, preview_btn,
                   after_queue, renders, exit, handlers>>

\* the user answers the dialog, yes or no
CancelAnswer ==
    /\ \E yes \in BOOLEAN : CancelAnswerCall(yes)
    /\ UNCHANGED cancel_log

\* the handlers _render_complete, _render_cancelled and _render_error
Handlers == {"_render_complete", "_render_cancelled", "_render_error"}

\* the callbacks a preview worker passes to root.after
PreviewCallbacks == {"_display_preview", "_preview_error"}

\* the main loop runs the oldest callback passed to root.after: a progress
\* update, one of the three handlers of a render, or the callback of a
\* preview, which enables the preview button again
RunCallback ==
    /\ after_queue # <<>>
    /\ after_queue' = Tail(after_queue)
    /\ IF Head(after_queue) \in Handlers
       THEN /\ is_rendering' = FALSE
            /\ cancel_render_flag' =
                  IF Head(after_queue) = "_render_cancelled" THEN FALSE
                  ELSE cancel_render_flag
            /\ render_btn' = "normal"
            /\ preview_btn' = "normal"
            /\ handlers' = Append(handlers, Head(after_queue))
       ELSE /\ preview_btn' =
                  IF Head(after_queue) \in PreviewCallbacks THEN "normal"
                  ELSE preview_btn
            /\ UNCHANGED <<is_rendering, cancel_render_flag, render_btn,
                           handlers>>
    /\ UNCHANGED <<preview_vars, start_result, cancel_log, audio_vars, q, beat_vars, config_vars,
                   visualizer_vars, render_vars, cancel_dialog, renders, exit>>

\* mutant of GeneratePreviewCall: a thread is started whether or not the
\* last one is alive
GeneratePreviewCall_NoAliveCheck ==
    /\ previews_alive < 2
    /\ preview_btn' = "disabled"
    /\ preview_thread' = "alive"
    /\ previews_alive' = previews_alive + 1
    /\ UNCHANGED <<start_result, cancel_log, audio_vars, q, beat_vars, config_vars, visualizer_vars,
                   render_vars, is_rendering, cancel_render_flag, render_btn,
                   cancel_dialog, after_queue, renders, exit, handlers>>

\* generate_preview: nothing is done while a preview thread is alive; else
\* the preview button is disabled and a preview thread started
GeneratePreviewCall ==
    /\ IF preview_thread = "alive"
       THEN UNCHANGED <<preview_btn, preview_thread, previews_alive>>
       ELSE /\ preview_btn' = "disabled"
            /\ preview_thread' = "alive"
            /\ previews_alive' = previews_alive + 1
    /\ UNCHANGED <<start_result, cancel_log, audio_vars, q, beat_vars, config_vars, visualizer_vars,
                   render_vars, is_rendering, cancel_render_flag, render_btn,
                   cancel_dialog, after_queue, renders, exit, handlers>>

\* the user asks for a preview while one is being made, or once the last
\* one is shown
PreviewAsked ==
    \/ preview_thread = "alive"
    \/ \A i \in 1..Len(after_queue) : after_queue[i] \notin PreviewCallbacks

\* update_preview of the window, then generate_preview: called by the
\* preview button and by every settings control (the palette box, the shape
\* buttons, the text entry), which stay enabled during a render
GeneratePreview ==
    /\ PreviewAsked
    /\ GeneratePreviewCall
    /\ UNCHANGED preview_log

\* the frame a preview renders: the middle one
PreviewFrameIdx ==
    IF NFrames \div 2 < NFrames - 1 THEN NFrames \div 2 ELSE NFrames - 1

\* does render_frame raise in the visualizer a preview constructs: as in
\* RenderFrames, from a visualizer just constructed (hue_offset 0)
PreviewRaises ==
    LET volume_intensity == VolumeIntensity(PreviewFrameIdx)
        hue == RMod(RAdd(HUE_SHIFT_BASE, volume_intensity), 360)
    IN  \/ ~cfg.disable_starfield /\ IsNaN(volume_intensity)
        \/ draw_waveforms_with_glow(PreviewFrameIdx, hue).raised # ""

\* _generate_preview_background: the preview thread constructs a visualizer
\* of its own, renders its middle frame and passes _display_preview to
\* root.after, or _preview_error if an exception was raised; then it ends
PreviewWorker ==
    /\ previews_alive > 0
    /\ after_queue' =
          Append(after_queue,
                 IF PreviewRaises THEN "_preview_error" ELSE "_display_preview")
    /\ previews_alive' = previews_alive - 1
    /\ preview_thread' = IF previews_alive = 1 THEN "dead" ELSE preview_thread
    /\ UNCHANGED preview_log
    /\ UNCHANGED <<start_result, cancel_log, audio_vars, q, beat_vars, config_vars, visualizer_vars,
                   render_vars, is_rendering, cancel_render_flag, render_btn,
                   preview_btn, cancel_dialog, renders, exit, handlers>>

\* the worker starts: a MusicVisualizer is constructed from the settings,
\* the frames counted, the temporary file created and the video writer opened
WorkerSetup ==
    /\ pc = "start"
    /\ rotation' = I(0)
    /\ cover_rotation' = I(0)
    /\ hue_offset' = I(0)
    /\ text_fade_history' = <<>>
    /\ volume_samples' = <<>>
    /\ trail_buffer' = None
    /\ stars' \in Stars
    /\ frame' = NoFrame
    /\ prev_energy' = I(0)
    /\ beat_intensity' = I(0)
    /\ beat_returned' = I(0)
    /\ calls' = 0
    /\ beat_before' = I(0)
    /\ same_energy' = FALSE
    /\ decay_run' = 0
    /\ decay_base' = I(0)
    /\ total_frames' = Trunc(RMul(Duration, I(cfg.fps)))
    /\ cur_frame' = 0
    /\ written' = <<>>
    /\ temp_video' = "exists"
    /\ out' = "open"
    /\ pc' = "loop"
    /\ UNCHANGED <<audio_vars, q, config_vars, output_file, gui_vars>>

\* the head of the frame loop, update_progress: a cancel flag that is set is
\* observed; else two progress callbacks are passed to root.after
WorkerPoll ==
    /\ pc = "loop"
    /\ cur_frame < total_frames
    /\ IF cancel_render_flag
       THEN /\ pc' = "cancelling"
            /\ UNCHANGED after_queue
       ELSE /\ pc' = "render"
            /\ after_queue' = after_queue \o <<"progress_bar", "progress_label">>
    /\ UNCHANGED <<preview_vars, start_result, cancel_log, audio_vars, q, beat_vars, config_vars, visualizer_vars,
                   cur_frame, total_frames, out, temp_video, output_file, written,
                   is_rendering, cancel_render_flag, render_btn, preview_btn,
                   cancel_dialog, renders, exit, handlers>>

\* mutant of WorkerCancel: the temporary file is not removed
WorkerCancel_KeepTemp ==
    /\ pc = "cancelling"
    /\ out' = "released"
    /\ after_queue' = Append(after_queue, "_render_cancelled")
    /\ exit' = "cancelled"
    /\ pc' = "ended"
    /\ UNCHANGED <<preview_vars, start_result, cancel_log, audio_vars, q, beat_vars, config_vars, visualizer_vars,
                   cur_frame, total_frames, temp_video, output_file, written,
                   is_rendering, cancel_render_flag, render_btn, preview_btn,
                   cancel_dialog, renders, handlers>>

\* the cancel flag was observed: out.release(), os.remove(temp_video_path),
\* root.after(0, self._render_cancelled), return
WorkerCancel ==
    /\ pc = "cancelling"
    /\ out' = "released"
    /\ temp_video' = "absent"
    /\ after_queue' = Append(after_queue, "_render_cancelled")
    /\ exit' = "cancelled"
    /\ pc' = "ended"
    /\ UNCHANGED <<preview_vars, start_result, cancel_log, audio_vars, q, beat_vars, config_vars, visualizer_vars,
                   cur_frame, total_frames, output_file, written,
                   is_rendering, cancel_render_flag, render_btn, preview_btn,
                   cancel_dialog, renders, handlers>>

\* mutant of WorkerFrame: the loop steps over an index
WorkerFrame_Skip ==
    /\ pc = "render"
    /\ RenderFrameStep(cur_frame, total_frames)
    /\ IF frame'.r.common.raised # ""
       THEN /\ pc' = "ended"
            /\ exit' = "error"
            /\ after_queue' = Append(after_queue, "_render_error")
            /\ UNCHANGED <<cur_frame, written>>
       ELSE /\ pc' = "loop"
            /\ cur_frame' = cur_frame + 2
            /\ written' = Append(written, cur_frame)
            /\ UNCHANGED <<exit, after_queue>>
    /\ UNCHANGED <<preview_vars, start_result, cancel_log, audio_vars, q, config_vars,
                   total_frames, out, temp_video, output_file, is_rendering,
                   cancel_render_flag, render_btn, preview_btn, cancel_dialog,
                   renders, handlers>>

\* the body of the frame loop: render_frame, then out.write; an exception of
\* render_frame is caught by the worker, which passes _render_error on
WorkerFrame ==
    /\ pc = "render"
    /\ RenderFrameStep(cur_frame, total_frames)
    /\ IF frame'.r.common.raised # ""
       THEN /\ pc' = "ended"
            /\ exit' = "error"
            /\ after_queue' = Append(after_queue, "_render_error")
            /\ UNCHANGED <<cur_frame, written>>
       ELSE /\ pc' = "loop"
            /\ cur_frame' = cur_frame + 1
            /\ written' = Append(written, cur_frame)
            /\ UNCHANGED <<exit, after_queue>>
    /\ UNCHANGED <<preview_vars, start_result, cancel_log, audio_vars, q, config_vars,
                   total_frames, out, temp_video, output_file, is_rendering,
                   cancel_render_flag, render_btn, preview_btn, cancel_dialog,
                   renders, handlers>>

\* the loop is over: out.release() and the "adding audio" label
WorkerRelease ==
    /\ pc = "loop"
    /\ cur_frame >= total_frames
    /\ out' = "released"
    /\ after_queue' = Append(after_queue, "progress_label")
    /\ pc' = "mux"
    /\ UNCHANGED <<preview_vars, start_result, cancel_log, audio_vars, q, beat_vars, config_vars, visualizer_vars,
                   cur_frame, total_frames, temp_video, output_file, written,
                   is_rendering, cancel_render_flag, render_btn, preview_btn,
                   cancel_dialog, renders, exit, handlers>>

\* mutant of WorkerMux: an exception of ffmpeg ends the thread, no handler
\* passed on
WorkerMux_NoErrorHandler ==
    /\ pc = "mux"
    /\ \E outcome \in MuxOutcomes :
          /\ output_file' = IF outcome = "ok" THEN "exists" ELSE output_file
          /\ temp_video' = IF outcome = "ok" THEN "absent" ELSE temp_video
          /\ exit' = IF outcome = "ok" THEN "complete" ELSE "error"
          /\ after_queue' =
                IF outcome = "ok" THEN Append(after_queue, "_render_complete")
                ELSE after_queue
    /\ pc' = "ended"
    /\ UNCHANGED <<preview_vars, start_result, cancel_log, audio_vars, q, beat_vars, config_vars, visualizer_vars,
                   cur_frame, total_frames, out, written, is_rendering,
                   cancel_render_flag, render_btn, preview_btn, cancel_dialog,
                   renders, handlers>>

\* ffmpeg adds the audio: on success the temporary file is removed and
\* _render_complete passed on; any exception is caught and _render_error
\* passed on
WorkerMux ==
    /\ pc = "mux"
    /\ \E outcome \in MuxOutcomes :
          /\ output_file' = IF outcome = "ok" THEN "exists" ELSE output_file
          /\ temp_video' = IF outcome = "ok" THEN "absent" ELSE temp_video
          /\ exit' = IF outcome = "ok" THEN "complete" ELSE "error"
          /\ after_queue' =
                Append(after_queue,
                       IF outcome = "ok" THEN "_render_complete" ELSE "_render_error")
    /\ pc' = "ended"
    /\ UNCHANGED <<preview_vars, start_result, cancel_log, audio_vars, q, beat_vars, config_vars, visualizer_vars,
                   cur_frame, total_frames, out, written, is_rendering,
                   cancel_render_flag, render_btn, preview_btn, cancel_dialog,
                   renders, handlers>>

\* the steps of the worker thread
Worker ==
    \/ WorkerSetup
    \/ WorkerPoll
    \/ WorkerCancel
    \/ WorkerFrame
    \/ WorkerRelease
    \/ WorkerMux

NextGui ==
    \/ StartRender
    \/ CancelAsk
    \/ CancelAnswer
    \/ RunCallback
    \/ GeneratePreview
    \/ PreviewWorker
    \/ Worker

\* the worker thread, once it has observed the cancel flag, runs on to its
\* return, and the main loop keeps running the callbacks passed to it
SpecGui ==
    /\ InitGui
    /\ [][NextGui]_vars
    /\ WF_vars(WorkerCancel)
    /\ WF_vars(RunCallback)

\* SpecGui with a worker thread that is scheduled: none of its steps is
\* put off forever (render_frame returns or raises, so the thread does not
\* stay in the loop body; ffmpeg ends)
SpecGuiLive ==
    /\ InitGui
    /\ [][NextGui]_vars
    /\ WF_vars(RunCallback)
    /\ WF_vars(WorkerSetup)
    /\ WF_vars(WorkerPoll)
    /\ WF_vars(WorkerCancel)
    /\ WF_vars(WorkerRelease)
    /\ WF_vars(WorkerMux)
    /\ []<>(pc # "render")

(***************************************************************************)
(* SpecRestart: renders started one after the other in the GUI, with the   *)
(* history of the cancel requests.  One file, the waveforms only, no       *)
(* preview.                                                                *)
(***************************************************************************)
InitRestart ==
    /\ InitGui
    /\ ~cfg.text_overlay
    /\ \A i \in 1..Len(y) : ~IsNaN(y[i])
    /\ magnitude[1][1] = I(0)

\* StartRender for up to MaxRestarts renders; a call that starts a render
\* logs whether cancel_render_flag was still set when it was made
RestartRender ==
    /\ renders < MaxRestarts \/ is_rendering
    /\ StartRenderCall
    /\ cancel_log' = IF is_rendering THEN cancel_log
                     ELSE [stale |-> cancel_render_flag, confirmed |-> FALSE]

\* CancelAnswer; a yes is logged
ConfirmCancel ==
    \E yes \in BOOLEAN :
        /\ CancelAnswerCall(yes)
        /\ cancel_log' = [cancel_log EXCEPT !.confirmed = @ \/ yes]

NextRestart ==
    \/ RestartRender
    \/ CancelAsk
    \/ ConfirmCancel
    \/ RunCallback
    \/ Worker

SpecRestart == InitRestart /\ [][NextRestart]_vars

(***************************************************************************)
(* SpecPreview: previews asked for in the GUI, beside one render, with the *)
(* history of the generate_preview calls.  The main loop keeps running the *)
(* callbacks passed to it.                                                 *)
(***************************************************************************)
InitPreview ==
    /\ InitGui
    /\ ~cfg.text_overlay

\* GeneratePreview, with what the call did logged
RequestPreview ==
    /\ PreviewAsked
    /\ GeneratePreviewCall
    /\ preview_log' = IF preview_thread = "alive" THEN "dropped" ELSE "started"

NextPreview ==
    \/ RequestPreview
    \/ PreviewWorker
    \/ RunCallback
    \/ StartRender
    \/ CancelAsk
    \/ CancelAnswer
    \/ Worker

SpecPreview == InitPreview /\ [][NextPreview]_vars /\ WF_vars(RunCallback)

(***************************************************************************)
(* SpecText: draw_text_overlay called over and over on one visualizer, as  *)
(* render_frame does when a text overlay is set.                           *)
(***************************************************************************)
InitText ==
    /\ y = LoadAudio(<<0 - 2>>)
    /\ magnitude = [b \in Bins |-> [f \in 1..StftFrames(y) |-> I(0)]]
    /\ BeatInit
    /\ q = NoQuery
    /\ cfg = [color_palette |-> "rainbow", cover_image |-> FALSE,
              cover_shape |-> "square", text_overlay |-> TRUE,
              disable_rings |-> TRUE, disable_starfield |-> TRUE,
              preview_seconds |-> 0, fps |-> 1]
    /\ self_bands = SetupBands(cfg.color_palette)
    /\ VisualizerInit
    /\ stars.pos = 0
    /\ RenderIdle
    /\ RenderManagerInit

\* the volume_intensity of the next call: silence or full volume in the
\* first MaxCalls calls, then 0, 1/2, 1 over and over
TextVolumes ==
    IF Len(volume_samples) < MaxCalls THEN {I(0), I(1)}
    ELSE {Norm(Len(volume_samples) % 3, 2)}

\* draw_text_overlay(img, text, beat_intensity, volume_intensity,
\* text_fade_history, ...) on the frame drawn so far
DrawTextOverlay ==
    /\ Len(volume_samples) < MaxTextCalls
    /\ \E volume_intensity \in TextVolumes :
          /\ text_fade_history' = TextHistory(text_fade_history, volume_intensity)
          /\ volume_samples' = Append(volume_samples, volume_intensity)
          /\ trail_buffer' = draw_text_overlay(BlackImage, text_fade_history', I(0))
    /\ UNCHANGED <<audio_vars, q, beat_vars, config_vars, rotation,
                   cover_rotation, hue_offset, stars, frame, render_vars,
                   gui_vars>>

NextText == DrawTextOverlay

SpecText == InitText /\ [][NextText]_vars

(***************************************************************************)
(* Claims on the AudioProcessor and the BeatDetector.                      *)
(***************************************************************************)
\* C1: clamping law. A get_band_values or get_band_waveform call with a frame
\* index >= the number of spectrogram frames raises nothing and returns what
\* the same call returns for the last valid index.
C1_ClampingLaw ==
    (q.fn # "none" /\ q.frame_idx >= NFrames) =>
        /\ q.result.raised = ""
        /\ q.fn = "band_values" =>
              q.result = get_band_values(NFrames - 1, q.bands)
        /\ q.fn = "band_waveform" =>
              q.result = get_band_waveform(NFrames - 1, q.band_idx, q.bands, q.points)

\* C1 witness: a query past the end whose result differs from frame 0's
C1_Witness ==
    /\ q.fn = "band_waveform"
    /\ q.frame_idx > NFrames
    /\ q.points > 1
    /\ q.result.raised = ""
    /\ q.result # get_band_waveform(0, q.band_idx, q.bands, q.points)

\* C2: after any sequence of detect_beat calls, the stored beat_intensity and
\* the value returned both lie in [0, 1].
C2_BeatIntensityRange ==
    /\ RLeq(I(0), beat_intensity) /\ RLeq(beat_intensity, I(1))
    /\ RLeq(I(0), beat_returned) /\ RLeq(beat_returned, I(1))

\* C2 witness: several calls made, an attack clamped to 1 and decayed since
C2_Witness ==
    /\ calls >= 2
    /\ RLess(I(0), beat_intensity)
    /\ RLess(beat_intensity, I(1))
    /\ beat_returned = beat_intensity

RECURSIVE RPow(_, _)
RPow(a, k) == IF k = 0 THEN I(1) ELSE RMul(a, RPow(a, k - 1))

\* C3: a detect_beat call that sees the same total energy as the call before
\* it multiplies beat_intensity by 0.7, so the value does not increase and is
\* not negative; after k such calls in a row it is 0.7^k times the value
\* before them.
C3_GeometricDecay ==
    /\ same_energy =>
          /\ beat_intensity = RMul(beat_before, Norm(7, 10))
          /\ RLeq(beat_intensity, beat_before)
          /\ RLeq(I(0), beat_intensity)
    /\ beat_intensity = RMul(decay_base, RPow(Norm(7, 10), decay_run))

\* C3 witness: two constant-energy calls after a beat
C3_Witness ==
    /\ decay_run >= 2
    /\ RLess(I(0), decay_base)
    /\ RLess(beat_intensity, decay_base)

(***************************************************************************)
(* Claims on render_frame.                                                 *)
(***************************************************************************)
\* the file rendered is silent: _load_audio divides its zero samples by
\* their maximum, 0
SilentFile == \A i \in 1..Len(y) : IsNaN(y[i])

\* the last render_frame call returned a frame
FrameReturned == frame.calls > 0 /\ frame.r.common.raised = ""

\* C4: hue_offset satisfies 0 <= hue_offset < 360 in the initial state and
\* after any number of render_frame calls.
C4_HueRange == RLeq(I(0), hue_offset) /\ RLess(hue_offset, I(360))

\* C4 on the files that are not silent
C4_HueRangeAudible == ~SilentFile => C4_HueRange

\* C5: with a silent waveform the volume_intensity computed by render_frame
\* is exactly 0.
C5_SilentVolumeZero ==
    (SilentFile /\ frame.calls > 0) => frame.r.common.volume_intensity = I(0)

\* C5, what the code does: the volume_intensity of a silent file is NaN and
\* the frame is not rendered
C5_SilentVolumeNaN ==
    (SilentFile /\ frame.calls > 0) =>
        /\ IsNaN(frame.r.common.volume_intensity)
        /\ frame.r.common.raised = "ValueError"

\* nothing but the waveforms is drawn: starfield and rings disabled, no
\* cover, no text
WaveformsOnly ==
    /\ cfg.disable_starfield
    /\ cfg.disable_rings
    /\ ~cfg.cover_image
    /\ ~cfg.text_overlay

\* the trail buffer a call started from, as an image
TrailBefore == IF frame.trail_before = None THEN BlackImage ELSE frame.trail_before

\* C6: pure decay. In a frame where nothing but the waveforms is drawn, every
\* channel of every trail-buffer pixel the waveform canvas leaves black is,
\* after the frame, its value before the frame times 0.85 truncated, which is
\* less than or equal to the value before; so it is for all pixels when the
\* whole waveform canvas is black.
C6_PureDecay ==
    (FrameReturned /\ WaveformsOnly) =>
        \A p \in Pix :
            frame.r.common.waveform[p] = BLACK =>
                \A c \in 1..3 :
                    /\ trail_buffer[p][c] = (TrailBefore[p][c] * 85) \div 100
                    /\ trail_buffer[p][c] <= TrailBefore[p][c]

\* C6 witness: a lit trail pixel the waveform canvas leaves black has decayed
C6_Witness ==
    /\ FrameReturned
    /\ WaveformsOnly
    /\ \E p \in Pix :
          /\ frame.r.common.waveform[p] = BLACK
          /\ TrailBefore[p] # BLACK
          /\ trail_buffer[p] # BLACK
          /\ \E c \in 1..3 : trail_buffer[p][c] < TrailBefore[p][c]

\* C7: determinism. With the starfield disabled a render_frame call has one
\* outcome (frame emitted and successor state), whatever stars the renderer
\* holds and whatever the random source gives.
C7_Determinism ==
    (cfg.disable_starfield /\ frame.calls > 0) =>
        frame.outcomes = { Observable(frame.r) }

\* C7 witness: a frame with content emitted with the starfield disabled, by a
\* renderer whose star lies on a pixel of the canvas
C7_Witness ==
    /\ cfg.disable_starfield
    /\ FrameReturned
    /\ frame.calls >= 2
    /\ stars.pos # 0
    /\ frame.r.img # BlackImage

\* C8: end-of-render fade. A frame of index i with total_frames - i <=
\* fade_frames = int(2.0 * fps) is emitted with every pixel scaled by
\* (total_frames - i) / fade_frames, that is with fade_amount = 1 -
\* (total_frames - i) / fade_frames, which lies in [0, 1) and is greater than
\* the fade_amount of the frame before; any other frame is emitted unscaled.
C8_EndFade ==
    FrameReturned =>
        LET i  == frame.r.common.frame_idx
            ff == Trunc(RMul(I(2), I(cfg.fps)))
        IN  IF total_frames - i <= ff
            THEN /\ frame.r.common.fading
                 /\ frame.r.common.fade_amount =
                        RSub(I(1), Norm(total_frames - i, ff))
                 /\ frame.r.img = Scale(trail_buffer, Norm(total_frames - i, ff))
                 /\ RLeq(I(0), frame.r.common.fade_amount)
                 /\ RLess(frame.r.common.fade_amount, I(1))
                 /\ RLess(frame.fade_before, frame.r.common.fade_amount)
            ELSE /\ ~frame.r.common.fading
                 /\ frame.r.img = trail_buffer

\* C8 witness: the second faded frame of a render, darker than its content
C8_Witness ==
    /\ FrameReturned
    /\ frame.r.common.fading
    /\ RLeq(I(0), frame.fade_before)
    /\ frame.r.img # BlackImage
    /\ frame.r.img # trail_buffer

\* C8 witness of the other case: a frame before the fade, emitted as drawn
C8_UnscaledReached ==
    /\ FrameReturned
    /\ ~frame.r.common.fading
    /\ frame.r.img # BlackImage

\* C9 as stated: when nothing but the waveforms is drawn, the non-black
\* pixels of the emitted frame lie where the waveform layer of that frame
\* drew.
C9_OnlyThisWaveform ==
    (FrameReturned /\ WaveformsOnly) =>
        \A p \in Pix : frame.r.img[p] # BLACK => frame.r.common.waveform[p] # BLACK

\* C9 amended: when nothing but the waveforms is drawn, the non-black pixels
\* of the emitted frame lie where the waveform layer of that frame or of an
\* earlier frame drew (the trail keeps the afterimage of earlier layers).
C9_OnlyWaveformOrTrail ==
    (FrameReturned /\ WaveformsOnly) =>
        \A p \in Pix : frame.r.img[p] # BLACK => p \in frame.drawn

\* C9 witness: an emitted pixel lit by the afterimage of an earlier layer
C9_Witness ==
    /\ FrameReturned
    /\ WaveformsOnly
    /\ \E p \in Pix :
          /\ frame.r.img[p] # BLACK
          /\ frame.r.common.waveform[p] = BLACK
          /\ p \in frame.drawn
    /\ \E p \in Pix : frame.r.img[p] = BLACK /\ p \notin frame.drawn

(***************************************************************************)
(* Claims on the RenderManager.                                            *)
(***************************************************************************)
\* the worker has observed the cancel flag at a frame boundary, or has ended
\* that way
CancelObserved == pc = "cancelling" \/ exit = "cancelled"

\* the handler h has run for the last render started
HandlerRan(h) ==
    /\ renders > 0
    /\ Len(handlers) = renders
    /\ handlers[renders] = h

\* C10: mid-render cancellation is a controlled abort. Once the worker has
\* observed the cancel flag it renders and writes no further frame and the
\* output file is not created; when it has ended, the video writer is
\* released and the temporary file removed; and the handler
\* _render_cancelled eventually runs for that render.
C10_ControlledAbort ==
    /\ [][CancelObserved =>
            /\ frame' = frame
            /\ written' = written
            /\ output_file' = "absent"]_vars
    /\ [](exit = "cancelled" =>
            /\ out = "released"
            /\ temp_video = "absent"
            /\ output_file = "absent")
    /\ (pc = "cancelling") ~> HandlerRan("_render_cancelled")

\* C10 witness: a render cancelled after its first frame and before its last,
\* cleaned up, its handler run
C10_Witness ==
    /\ exit = "cancelled"
    /\ Len(written) >= 1
    /\ Len(written) < total_frames
    /\ out = "released"
    /\ temp_video = "absent"
    /\ HandlerRan("_render_cancelled")

\* the worker thread of a full render is running
RenderActive == pc \in {"start", "loop", "render", "cancelling", "mux"}

\* the thread of a preview is running
PreviewActive == preview_thread = "alive"

\* C11: a preview render and a full render are never active at the same
\* time.
C11_NoInterleaving == ~(PreviewActive /\ RenderActive)

\* C11, the preview asked for during a render: it runs beside the worker
C11_PreviewDuringRender ==
    [][(RenderActive /\ ~PreviewActive /\ PreviewActive') => ~RenderActive']_vars

\* C11, the render asked for during a preview: it runs beside the preview
C11_RenderDuringPreview ==
    [][(PreviewActive /\ ~RenderActive /\ RenderActive') => ~PreviewActive']_vars

\* everything but the record of what start_render returned
AllButStartResult ==
    <<audio_vars, q, beat_vars, config_vars, visualizer_vars, render_vars,
      is_rendering, cancel_render_flag, render_btn, preview_btn, cancel_dialog,
      after_queue, renders, exit, handlers, preview_vars, cancel_log>>

\* C12: at most one full-render worker is active at any time. A worker
\* thread is started only by a start_render call that returns True, made
\* while is_rendering is false and no worker is running; a start_render call
\* made while is_rendering is true returns False and changes nothing; and
\* is_rendering is true from start_render until the complete, cancelled or
\* error handler of that render has run, the worker running only within
\* that time.
C12_SingleWorker ==
    /\ [][(renders' # renders \/ (start_result' = "True" /\ start_result # "True")) =>
            /\ ~is_rendering
            /\ ~RenderActive
            /\ renders' = renders + 1
            /\ start_result' = "True"
            /\ is_rendering'
            /\ pc' = "start"]_vars
    /\ [][(start_result' = "False" /\ start_result # "False") =>
            /\ is_rendering
            /\ UNCHANGED AllButStartResult]_vars
    /\ [][(is_rendering /\ start_result' # start_result) =>
            start_result' = "False"]_vars
    /\ [](is_rendering <=> renders > Len(handlers))
    /\ [](RenderActive => is_rendering)

\* C12 witness: a start_render call refused while the worker renders
C12_Witness ==
    /\ start_result = "False"
    /\ is_rendering
    /\ pc = "render"
    /\ Len(written) >= 1

\* the frame loop of the render has run to its end
LoopOver ==
    \/ pc \in {"mux", "done", "done_silent"}
    \/ pc = "ended" /\ exit = "complete"

\* the frame count of the render has been computed
FramesCounted == pc \notin {"init", "start"}

\* C13: in a full render, render_frame is called on one visualizer for the
\* frame indices 0, 1, ..., total_frames - 1 in increasing order, each once:
\* the k-th call of a visualizer has index k - 1 and the frames written are
\* 0, 1, ... in that order, all total_frames = int(duration * fps) of them
\* once the loop is over and a prefix of them before and in a render that is
\* cancelled or fails.
C13_FrameOrder ==
    /\ [][frame'.calls # frame.calls =>
            \/ frame' = NoFrame
            \/ /\ frame'.calls = frame.calls + 1
               /\ frame'.r.common.frame_idx = frame.calls
               /\ frame'.r.common.total_frames = total_frames
               /\ frame.calls < total_frames]_vars
    /\ [](/\ written = [i \in 1..Len(written) |-> i - 1]
          /\ frame.calls = Len(written)
                + (IF frame.calls > 0 /\ frame.r.common.raised # "" THEN 1 ELSE 0)
          /\ FramesCounted =>
                /\ total_frames = Trunc(RMul(Norm(Len(y), SampleRate), I(cfg.fps)))
                /\ Len(written) <= total_frames
          /\ LoopOver => Len(written) = total_frames)

\* C13 witness: a render that has written all its frames
C13_Witness ==
    /\ exit = "complete"
    /\ total_frames >= 2
    /\ written = [i \in 1..total_frames |-> i - 1]
    /\ frame.calls = total_frames

\* the audio-mux step has failed, all frames encoded and the writer released
MuxFailed ==
    /\ out = "released"
    /\ \/ pc \in {"done_silent", "raised"}
       \/ pc = "ended" /\ exit = "error"

\* the outcome is reported as degraded but recoverable: render() returns
\* after printing where the video without audio was saved
ReportedDegraded == pc = "done_silent"

\* C14: mux failure is non-fatal. When the audio-mux step fails, the silent
\* video file is retained and the outcome is reported as degraded but
\* recoverable, not as a failed render.
C14_MuxFailureNonFatal ==
    MuxFailed => (temp_video = "exists" /\ ReportedDegraded)

\* C14, what the code does: the silent video is retained, and the outcome is
\* reported as degraded only by the command-line render and only when ffmpeg
\* ran and failed; else render() raises or the worker reports a failed render
C14_Retained ==
    /\ MuxFailed => temp_video = "exists"
    /\ (pc = "ended" /\ exit = "error") => ~ReportedDegraded

(***************************************************************************)
(* Further claims on the AudioProcessor.                                   *)
(***************************************************************************)
\* the bins of band k (from 1) of the band list of the last query
QueryBins(k) == MaskBins(q.bands[k].min, q.bands[k].max)

\* C15: a band whose range holds no frequency bin yields band value 0 from
\* get_band_values and point_count zeros from get_band_waveform, at every
\* frame index, without raising.
C15_EmptyBand ==
    /\ q.fn = "band_values" =>
          /\ q.result.raised = ""
          /\ \A k \in 1..Len(q.bands) :
                QueryBins(k) = <<>> => q.result.value[k] = I(0)
    /\ (q.fn = "band_waveform" /\ QueryBins(q.band_idx + 1) = <<>>) =>
          /\ q.result.raised = ""
          /\ Len(q.result.value) = q.points
          /\ \A i \in 1..q.points : q.result.value[i] = I(0)

\* C15 witness: the waveform of an empty band, asked past the last frame of
\* a spectrogram that is not silent
C15_Witness ==
    /\ q.fn = "band_waveform"
    /\ QueryBins(q.band_idx + 1) = <<>>
    /\ q.points > 1
    /\ q.frame_idx >= NFrames
    /\ RLess(I(0), GlobalMax)
    /\ q.result = Ok([i \in 1..q.points |-> I(0)])

\* the slice of the band of the last get_band_waveform query, at the
\* clamped frame
QuerySlice ==
    Masked(FrameData(ClampFrame(q.frame_idx)), QueryBins(q.band_idx + 1))

\* the values are the magnitudes of the slice at non-decreasing positions
\* from the first bin to the last, divided by the global maximum (or 1)
Resampled(value, slice, points) ==
    \E pos \in [1..points -> 1..Len(slice)] :
        /\ pos[1] = 1
        /\ pos[points] = Len(slice)
        /\ \A i \in 1..(points - 1) : pos[i] <= pos[i + 1]
        /\ \A i \in 1..points : value[i] = RDiv(slice[pos[i]], MaxOrOne)

\* C18: get_band_waveform on a non-empty band returns exactly point_count
\* values, each a magnitude of the band's slice at the clamped frame divided
\* by the global maximum magnitude (1 when that is 0), at non-decreasing
\* positions from the first bin to the last; every value lies in [0, 1].
C18_Resampling ==
    (q.fn = "band_waveform" /\ q.result.raised = "" /\ QuerySlice # <<>>) =>
        /\ Len(q.result.value) = q.points
        /\ Resampled(q.result.value, QuerySlice, q.points)
        /\ \A i \in 1..q.points :
              RLeq(I(0), q.result.value[i]) /\ RLeq(q.result.value[i], I(1))

\* C18 on the files that are not silent: all of it but the last bin, which
\* a query for one point does not reach
C18_ResamplingAudible ==
    (q.fn = "band_waveform" /\ q.result.raised = "" /\ QuerySlice # <<>>
        /\ ~IsNaN(GlobalMax)) =>
        /\ Len(q.result.value) = q.points
        /\ q.points > 1 => Resampled(q.result.value, QuerySlice, q.points)
        /\ q.result.value[1] = RDiv(QuerySlice[1], MaxOrOne)
        /\ \A i \in 1..q.points :
              RLeq(I(0), q.result.value[i]) /\ RLeq(q.result.value[i], I(1))

\* C18 on the silent file: the values are NaN
C18_SilentNaN ==
    (q.fn = "band_waveform" /\ q.result.raised = "" /\ QuerySlice # <<>>
        /\ IsNaN(GlobalMax)) =>
        \A i \in 1..q.points : IsNaN(q.result.value[i])

(***************************************************************************)
(* Further claims on the visualizer.                                       *)
(***************************************************************************)
\* C16: the text-fade history is a bounded sliding window. After any number
\* of frames it holds at most 60 entries, the most recent min(n, 60)
\* volume_intensity samples in arrival order.
C16_SlidingWindow ==
    LET n == Len(volume_samples)
        k == IF n < 60 THEN n ELSE 60
    IN  /\ Len(text_fade_history) <= 60
        /\ text_fade_history = [i \in 1..k |-> volume_samples[n - k + i]]

\* C16 witness: two samples evicted, the oldest first
C16_Witness ==
    /\ Len(volume_samples) = 62
    /\ Len(text_fade_history) = 60
    /\ volume_samples[1] # volume_samples[3]
    /\ text_fade_history[1] = volume_samples[3]
    /\ text_fade_history[60] = volume_samples[62]

\* the visualizer was constructed with a palette name that is not one of
\* COLOR_PALETTES
UnknownPalette == cfg.color_palette \notin DOMAIN COLOR_PALETTES

\* C17: a palette name outside the enumerated set is rejected at
\* configuration time: no visualizer is constructed with it, so none renders
\* with it.
C17_UnknownPaletteRejected == UnknownPalette => (pc = "init" /\ frame.calls = 0)

\* C17, what the code does: the visualizer is constructed with the bands of
\* the rainbow palette and renders
C17_RainbowSubstituted == UnknownPalette => self_bands = SetupBands("rainbow")

(***************************************************************************)
(* Further claims on the BeatDetector.                                     *)
(***************************************************************************)
\* the sum of the magnitudes of frame f (from 0) over the bins of lo..hi Hz
EnergyIn(f, lo, hi) ==
    RSum([k \in 1..Len(MaskBins(lo, hi)) |-> magnitude[MaskBins(lo, hi)[k]][f + 1]])

\* C19: one detect_beat call performs exactly this update: total = bass
\* (20-250 Hz) sum + low-mid (250-1000 Hz) sum at the clamped frame,
\* energy_change = total - prev_energy, threshold = 0.3 * (sum of the
\* spectrogram / number of frames); intensity becomes min(1, energy_change /
\* (2 * threshold)) if energy_change > threshold, else 0.7 times itself;
\* prev_energy becomes total; the intensity is returned.
C19_BeatUpdate ==
    [][calls' # calls =>
        \E frame_idx \in FrameIdxs :
            LET f == IF frame_idx >= NFrames THEN NFrames - 1 ELSE frame_idx
                total == RAdd(EnergyIn(f, 20, 250), EnergyIn(f, 250, 1000))
                energy_change == RSub(total, prev_energy)
                threshold ==
                    RMul(Norm(3, 10), RDiv(RSum(AllMagnitudes), I(NFrames)))
            IN  /\ calls' = calls + 1
                /\ prev_energy' = total
                /\ beat_intensity' =
                      IF RLess(threshold, energy_change)
                      THEN RMin(I(1), RDiv(energy_change, RMul(I(2), threshold)))
                      ELSE RMul(beat_intensity, Norm(7, 10))
                /\ beat_returned' = beat_intensity']_vars

\* C19 witness: an attack after a decay after an attack
C19_Witness ==
    /\ calls >= 3
    /\ RLess(I(0), beat_before)
    /\ RLess(beat_before, beat_intensity)
    /\ ~same_energy

(***************************************************************************)
(* Further claims on render_frame.                                         *)
(***************************************************************************)
\* the last render_frame call advanced rotation by 0.001 + 0.015 *
\* volume_intensity, at least 0.001, to a greater angle
RotationAdvanced ==
    LET step == RSub(rotation, frame.rotation_before)
    IN  /\ step = RAdd(Norm(1, 1000),
                       RMul(Norm(15, 1000), frame.r.common.volume_intensity))
        /\ RLeq(Norm(1, 1000), step)
        /\ RLess(frame.rotation_before, rotation)

\* C20: the rotation angle advances monotonically: every render_frame call
\* increases rotation by 0.001 + 0.015 * volume_intensity, which is at
\* least 0.001.
C20_RotationAdvances == frame.calls > 0 => RotationAdvanced

\* C20 on the files that are not silent
C20_RotationAdvancesAudible ==
    (frame.calls > 0 /\ ~SilentFile) => RotationAdvanced

\* C20 on the silent file: the rotation is NaN after the first call
C20_SilentRotationNaN ==
    (frame.calls > 0 /\ SilentFile) => IsNaN(rotation)

(***************************************************************************)
(* Further claims on render_frame.                                         *)
(***************************************************************************)
\* C21: the working image is stored as the new trail buffer before the
\* end-of-render fade is applied. The emitted frame is the stored trail
\* buffer scaled by 1 - fade_amount when the frame is faded and the stored
\* trail buffer itself when not; the trail buffer keeps the unfaded image:
\* when nothing but the waveforms is drawn, a pixel the waveform layer drew
\* holds the layer's colour and any other pixel the trail of the frame before
\* times 0.85, with no fade_amount of this or an earlier frame in it.
C21_TrailBeforeFade ==
    FrameReturned =>
        /\ frame.r.img =
              IF frame.r.common.fading
              THEN Scale(trail_buffer, RSub(I(1), frame.r.common.fade_amount))
              ELSE trail_buffer
        /\ WaveformsOnly =>
              \A p \in Pix :
                 trail_buffer[p] =
                    IF frame.r.common.waveform[p] # BLACK
                    THEN frame.r.common.waveform[p]
                    ELSE Scale(TrailBefore, TRAIL_FADE_FACTOR)[p]

\* C21 witness: the second faded frame of a render, its trail buffer brighter
\* than the frame emitted, after a faded frame that left a lit trail
C21_Witness ==
    /\ FrameReturned
    /\ WaveformsOnly
    /\ frame.r.common.fading
    /\ RLess(I(0), frame.fade_before)
    /\ RLess(I(0), frame.r.common.fade_amount)
    /\ TrailBefore # BlackImage
    /\ \E p \in Pix : \E c \in 1..3 : frame.r.img[p][c] < trail_buffer[p][c]

\* C22: cutout composite. For every pixel, if the pixel of the waveform
\* canvas has a nonzero R+G+B sum the working image pixel becomes exactly the
\* waveform pixel, otherwise the working image pixel (decayed trail plus
\* starfield) is left unchanged.
C22_Cutout ==
    FrameReturned =>
        /\ frame.r.working =
              DrawStarfield(frame.r.common.faded_trail, stars, ~cfg.disable_starfield)
        /\ \A p \in Pix :
              LET layer == frame.r.common.waveform[p]
              IN  frame.r.composited[p] =
                     IF layer[1] + layer[2] + layer[3] > 0
                     THEN layer
                     ELSE frame.r.working[p]

\* C22 witness: one pixel of a lit working image overwritten by the waveform
\* layer with another colour, another lit pixel kept where the layer is black
C22_Witness ==
    /\ FrameReturned
    /\ \E p \in Pix :
          /\ frame.r.common.waveform[p] # BLACK
          /\ frame.r.working[p] # BLACK
          /\ frame.r.working[p] # frame.r.common.waveform[p]
          /\ frame.r.composited[p] = frame.r.common.waveform[p]
    /\ \E p \in Pix :
          /\ frame.r.common.waveform[p] = BLACK
          /\ frame.r.working[p] # BLACK
          /\ frame.r.composited[p] = frame.r.working[p]

(***************************************************************************)
(* Further claims on the RenderManager.                                    *)
(***************************************************************************)
\* C23: a cancel request is always honoured. Whenever cancel_render_flag is
\* true while a render worker is active, that render does not end through
\* completion and produces no output file.
C23_CancelHonoured ==
    [][(RenderActive /\ cancel_render_flag) =>
            /\ exit' # "complete"
            /\ output_file' = "absent"]_vars

\* C23, what the code does: the flag is polled once per frame boundary, by
\* update_progress at the head of the loop body, and a flag that is set at
\* that poll ends the render through the cancelled path; a flag set after
\* the last poll is not looked at
C23_HonouredAtPoll ==
    /\ [][(pc = "loop" /\ pc' # "loop" /\ cur_frame < total_frames) =>
             (pc' = IF cancel_render_flag THEN "cancelling" ELSE "render")]_vars
    /\ [][(pc' = "cancelling" /\ pc # "cancelling") =>
             (pc = "loop" /\ cancel_render_flag)]_vars
    /\ [][(pc = "cancelling" /\ pc' # pc) =>
             (exit' = "cancelled" /\ output_file' = "absent")]_vars

\* C24: in every render_frame call the beat detector is updated exactly once
\* and the round-cover size, the ring sizes and the text alpha of that frame
\* use the beat intensity returned by that one update and the
\* volume_intensity of that same frame (the newest sample of the text-fade
\* history the alpha is averaged over).
C24_BeatOncePerFrame ==
    /\ [][frame'.calls = frame.calls + 1 =>
             /\ calls' = calls + 1
             /\ beat_returned' = detect_beat(frame'.r.common.frame_idx).returned
             /\ frame'.r.common.beat.returned = beat_returned'
             /\ frame'.r.common.volume_intensity =
                   VolumeIntensity(frame'.r.common.frame_idx)]_vars
    /\ [](calls = frame.calls)
    /\ [](FrameReturned =>
            LET volume_intensity == frame.r.common.volume_intensity
            IN  /\ (cfg.cover_image /\ cfg.cover_shape = "round") =>
                      frame.r.common.center_size =
                         CenterSize(volume_intensity, beat_returned)
                /\ ~cfg.disable_rings =>
                      \A k \in 1..3 :
                         frame.r.common.ring_sizes[k] =
                            RingSize(k - 1, volume_intensity, beat_returned)
                /\ cfg.text_overlay =>
                      /\ text_fade_history[Len(text_fade_history)] = volume_intensity
                      /\ frame.r.common.text_alpha =
                            TextAlpha(text_fade_history, beat_returned))

\* C24 witness: a frame with a round cover, rings and text drawn on a beat
\* that the update of this frame raised
C24_Witness ==
    /\ FrameReturned
    /\ cfg.cover_image
    /\ cfg.cover_shape = "round"
    /\ ~cfg.disable_rings
    /\ cfg.text_overlay
    /\ frame.calls >= 2
    /\ RLess(beat_before, beat_returned)
    /\ RLess(I(0), frame.r.common.volume_intensity)
    /\ frame.r.common.center_size # CenterSize(frame.r.common.volume_intensity, beat_before)
    /\ frame.r.common.ring_sizes[1] # RingSize(0, frame.r.common.volume_intensity, beat_before)

(***************************************************************************)
(* Claims on volume_intensity and on the attack branch of detect_beat.     *)
(***************************************************************************)
\* the spectrogram holds non-negative magnitudes (none is NaN)
NonNegativeMagnitudes ==
    \A b \in Bins : \A f \in 1..NFrames : RLeq(I(0), magnitude[b][f])

\* the spectrogram column a frame index is clamped to
ClampedColumn(frame_idx) == IF frame_idx >= NFrames THEN NFrames ELSE frame_idx + 1

\* the mean of the magnitudes of a band at a column, or 0 for a band without
\* bins
BandMean(band, column) ==
    LET bins == { b \in Bins : /\ frequencies[b] >= band.min
                               /\ frequencies[b] <= band.max }
        total[S \in SUBSET bins] ==
            IF S = {} THEN I(0)
            ELSE LET b == CHOOSE x \in S : TRUE
                 IN  RAdd(magnitude[b][column], total[S \ {b}])
    IN  IF bins = {} THEN I(0) ELSE RDiv(total[bins], I(Cardinality(bins)))

\* C25: volume_intensity lies in [0, 1] for every frame index and every
\* spectrogram of non-negative magnitudes: it is the mean of the band values
\* (each a mean of magnitudes, or 0) divided by the global maximum magnitude,
\* or by 1 when that maximum is 0.
C25_VolumeRange ==
    (q.fn = "volume_intensity" /\ NonNegativeMagnitudes) =>
        LET volume_intensity == q.result.value
            column  == ClampedColumn(q.frame_idx)
            means   == [k \in 1..Len(self_bands) |-> BandMean(self_bands[k], column)]
            highest == CHOOSE m \in { magnitude[b][f] : b \in Bins, f \in 1..NFrames } :
                          \A b \in Bins : \A f \in 1..NFrames : RLeq(magnitude[b][f], m)
        IN  /\ RLeq(I(0), volume_intensity)
            /\ RLeq(volume_intensity, I(1))
            /\ volume_intensity =
                  RDiv(RDiv(RSum(means), I(Len(means))),
                       IF highest = I(0) THEN I(1) ELSE highest)

\* C25 witness: a volume_intensity strictly between 0 and 1 of a spectrogram
\* whose maximum is not 1, at a frame index past the end
C25_Witness ==
    /\ q.fn = "volume_intensity"
    /\ NonNegativeMagnitudes
    /\ GlobalMax = I(2)
    /\ q.frame_idx >= NFrames
    /\ RLess(I(0), q.result.value)
    /\ RLess(q.result.value, I(1))
    /\ q.result.value # RDiv(RMean(get_band_values(q.frame_idx, self_bands).value), I(1))

\* C25 witness of the other case: the all-zero spectrogram, divided by 1
C25_ZeroMaximum ==
    /\ q.fn = "volume_intensity"
    /\ NonNegativeMagnitudes
    /\ GlobalMax = I(0)
    /\ q.result.value = I(0)

\* C25 in a render: the volume_intensity of every frame of a file that is not
\* silent lies in [0, 1]
C25_RenderedVolumeRange ==
    (frame.calls > 0 /\ ~SilentFile) =>
        /\ RLeq(I(0), frame.r.common.volume_intensity)
        /\ RLeq(frame.r.common.volume_intensity, I(1))

\* the detect_beat call of this step took the attack branch: the total energy
\* it stored exceeds the one stored before by more than the threshold
AttackTaken ==
    /\ calls' = calls + 1
    /\ RLess(BeatThreshold, RSub(prev_energy', prev_energy))

\* C26: on every detect_beat call that takes the attack branch the resulting
\* beat_intensity is strictly greater than 0.5 and at most 1, and the
\* threshold it divides by is greater than 0; with a threshold of 0 (the
\* all-zero spectrogram) the attack branch is never taken and the intensity
\* decays.
C26_AttackRange ==
    /\ [][AttackTaken =>
             /\ RLess(I(0), BeatThreshold)
             /\ RLess(Norm(1, 2), beat_intensity')
             /\ RLeq(beat_intensity', I(1))
             /\ beat_returned' = beat_intensity']_vars
    /\ [][(calls' = calls + 1 /\ BeatThreshold = I(0)) =>
             /\ ~AttackTaken
             /\ beat_intensity' = RMul(beat_intensity, Norm(7, 10))]_vars

\* C26 witness: the first call, from prev_energy 0, is an attack that is not
\* clamped, between 0.5 and 1
C26_Witness ==
    /\ calls = 1
    /\ RLess(BeatThreshold, prev_energy)
    /\ RLess(I(0), BeatThreshold)
    /\ RLess(Norm(1, 2), beat_intensity)
    /\ RLess(beat_intensity, I(1))

\* C26 witness of the other case: calls made on the all-zero spectrogram
C26_ZeroThreshold ==
    /\ calls >= 2
    /\ BeatThreshold = I(0)
    /\ beat_intensity = I(0)

(***************************************************************************)
(* Claims on the end of a render and on the preview.                       *)
(***************************************************************************)
\* the handlers passed to root.after and not yet run
PendingHandlers ==
    Cardinality({ i \in 1..Len(after_queue) : after_queue[i] \in Handlers })

\* the handler that belongs to the way the worker ended
HandlerOf(way) ==
    IF way = "complete" THEN "_render_complete"
    ELSE IF way = "cancelled" THEN "_render_cancelled"
    ELSE "_render_error"

\* C27: every render started by start_render eventually ends in exactly one
\* of the three handlers _render_complete, _render_cancelled or
\* _render_error, the one of the way its worker ended, which sets
\* is_rendering back to false and enables the render and preview buttons;
\* is_rendering never stays true forever after the worker has ended.
C27_RenderEnds ==
    /\ [](/\ PendingHandlers <= 1
          /\ renders = Len(handlers) + PendingHandlers
                          + (IF RenderActive THEN 1 ELSE 0)
          /\ is_rendering <=> (RenderActive \/ PendingHandlers = 1)
          /\ (pc = "ended" /\ is_rendering) =>
                \E i \in 1..Len(after_queue) : after_queue[i] = HandlerOf(exit))
    /\ [][handlers' # handlers =>
             /\ handlers' = Append(handlers, HandlerOf(exit))
             /\ Len(handlers') = renders
             /\ is_rendering /\ ~is_rendering'
             /\ render_btn' = "normal"
             /\ preview_btn' = "normal"]_vars
    /\ is_rendering ~> (~is_rendering /\ Len(handlers) = renders)
    /\ (pc = "ended" /\ is_rendering) ~> ~is_rendering

\* C27 witness: a render that failed while rendering a frame, its error
\* handler run, the flag cleared and the buttons enabled
C27_Witness ==
    /\ renders >= 1
    /\ pc = "ended"
    /\ exit = "error"
    /\ out = "open"
    /\ handlers = <<"_render_error">>
    /\ ~is_rendering
    /\ render_btn = "normal"
    /\ preview_btn = "normal"

\* C27 witnesses of the other two ways
C27_CompleteReached ==
    /\ exit = "complete" /\ handlers = <<"_render_complete">> /\ ~is_rendering

C27_CancelledReached ==
    /\ exit = "cancelled" /\ handlers = <<"_render_cancelled">> /\ ~is_rendering

\* C28: when the GUI render worker has ended, on any path (completion,
\* cancellation, or an exception raised while rendering a frame or muxing),
\* the video encoder has been released and the temporary video file removed.
C28_CleanupOnEveryPath ==
    pc = "ended" => (out = "released" /\ temp_video = "absent")

\* C28, what the code does: the encoder is released and the temporary file
\* removed on completion and on cancellation; after an exception of ffmpeg
\* the temporary file is left, after one of render_frame the encoder is left
\* open as well
C28_CleanupUnlessError ==
    /\ (pc = "ended" /\ exit \in {"complete", "cancelled"}) =>
          (out = "released" /\ temp_video = "absent")
    /\ (pc = "ended" /\ exit = "error") =>
          /\ temp_video = "exists"
          /\ out = (IF Len(written) = total_frames THEN "released" ELSE "open")

\* C28 on the failure of ffmpeg alone, every frame written and the encoder
\* released: the temporary file has been removed (it has not)
C28_CleanupAfterMuxFailure ==
    (pc = "ended" /\ exit = "error" /\ out = "released") => temp_video = "absent"

\* C29: a cancel request never carries over to a later render. start_render
\* resets cancel_render_flag to false as it starts the worker, whatever the
\* flag was; the flag is set only by a confirmed cancel request; so a worker
\* takes the cancelled path only on a request confirmed after its render
\* started, and while no request has been confirmed since the start the flag
\* is false and the render is not cancelled.
C29_NoCarryOver ==
    /\ [][renders' # renders =>
             /\ renders' = renders + 1
             /\ ~cancel_render_flag'
             /\ pc' = "start"
             /\ cancel_log'.stale = cancel_render_flag]_vars
    /\ [][(cancel_render_flag' /\ ~cancel_render_flag) =>
             /\ cancel_dialog /\ ~cancel_dialog'
             /\ cancel_log'.confirmed]_vars
    /\ [][(pc' = "cancelling" /\ pc # "cancelling") =>
             (cancel_render_flag /\ cancel_log.confirmed)]_vars
    /\ []((renders > 0 /\ ~cancel_log.confirmed) =>
             /\ ~cancel_render_flag
             /\ ~CancelObserved)

\* C29 witness: a second render, started while the flag of a request
\* confirmed during the first was still set, has run to completion with no
\* request confirmed since
C29_Witness ==
    /\ renders = 2
    /\ cancel_log.stale
    /\ ~cancel_log.confirmed
    /\ handlers = <<"_render_complete", "_render_complete">>
    /\ exit = "complete"
    /\ Len(written) = total_frames
    /\ output_file = "exists"

\* C29 witness of the dialog left open across renders: asked during the
\* first render, confirmed during the second, which is cancelled
C29_LateAnswerCancels ==
    /\ renders = 2
    /\ ~cancel_log.stale
    /\ cancel_log.confirmed
    /\ handlers = <<"_render_complete", "_render_cancelled">>
    /\ written = <<>>

\* a callback of a preview worker is waiting for the main loop
PreviewPending ==
    \E i \in 1..Len(after_queue) : after_queue[i] \in PreviewCallbacks

\* C30: at most one preview worker is alive at any time, and preview_thread
\* is alive exactly when one is; a generate_preview call made while the
\* preview thread is alive changes nothing, so starts no thread; a preview
\* worker ends by passing exactly one of _display_preview and _preview_error
\* to the main loop, the main loop running either sets the preview button to
\* normal, and so whenever such a callback is waiting the button gets enabled
C30_SinglePreview ==
    /\ [](/\ previews_alive <= 1
          /\ (preview_thread = "alive") <=> (previews_alive = 1))
    /\ [][(preview_log # "dropped" /\ preview_log' = "dropped") =>
            /\ preview_thread = "alive"
            /\ UNCHANGED <<previews_alive, preview_thread, preview_btn,
                           after_queue, is_rendering, render_btn>>]_vars
    /\ [][previews_alive' < previews_alive =>
            /\ preview_thread' = "dead"
            /\ Len(after_queue') = Len(after_queue) + 1
            /\ after_queue'[Len(after_queue')] \in PreviewCallbacks
            /\ SubSeq(after_queue', 1, Len(after_queue)) = after_queue]_vars
    /\ [][(after_queue # <<>> /\ after_queue' = Tail(after_queue)
             /\ Head(after_queue) \in PreviewCallbacks)
            => preview_btn' = "normal"]_vars
    /\ (PreviewPending ~> preview_btn = "normal")

\* with no render made, a request was dropped while the preview thread was
\* alive, and then the thread ended, its callback ran and the button is
\* enabled
C30_Witness ==
    /\ preview_log = "dropped"
    /\ preview_thread = "dead"
    /\ previews_alive = 0
    /\ ~PreviewPending
    /\ renders = 0
    /\ preview_btn = "normal"

====
